---- MODULE Spec2Model ----
(***************************************************************************)
(* Model of the wake-steering design tools of                              *)
(* whoc/design_tools/wake_steering_design.py and of the controller of      *)
(* whoc/controllers/lookup_based_wake_steering_controller.py, and of the   *)
(* interfaces: their check of the controls, and the setpoints and          *)
(* measurements ROSCO_ZMQInterface exchanges with the server.              *)
(*                                                                         *)
(* Every design tool is a pure function of a yaw offset lookup table       *)
(* (df_opt) and some scalar arguments.  One specification per tool draws   *)
(* the table and the arguments from bounded sets in its initial state and  *)
(* has one action per call of the tool.                                    *)
(*                                                                         *)
(* Units.  Wind directions are whole degrees, wind speeds whole m/s,       *)
(* turbulence intensities whole percent (6 stands for 0.06).  Yaw offsets  *)
(* of the rate limiter and of the hysteresis detector are counted in       *)
(* 1/OffsetScale degree, so that the halvings of the code are exact.       *)
(* Values the code computes with a division of arbitrary operands (the     *)
(* wind speed ramps, the interpolant) are exact fractions [num, den].      *)
(* The sentinels -1.0 and 999.0 of the turbulence intensity axis are -100   *)
(* and 99900 percent.                                                       *)
(***************************************************************************)
EXTENDS Integers, Sequences, FiniteSets, TLC

VARIABLES
    pc,       \* "call" before the tool of the specification ran, "done" after
    df_opt,   \* the lookup table handed to the tool: a sequence of rows
    args,     \* the other arguments of the call (a record, args.fn names the tool)
    ret,      \* what the call returned or raised
    wake_steering_interpolant,
              \* the interpolant get_yaw_angles_interpolant built, or None
    n_turbines,        \* the controller's n_turbines
    hysteresis_dict,   \* the controller's hysteresis_dict, or None
    wd_store,          \* the controller's wd_store
    controls_dict,     \* the controller's controls_dict
    measurements_dict, \* the controller's measurements_dict of the last step
    interface,         \* the interface to the plant (the fields of the object)
    last_sent          \* the arguments of the last send_controls call on the
                       \* interface, None before the first

\* the fields of a LookupBasedWakeSteeringController other than its
\* interpolant, and what was last sent through its interface
controller_fields ==
    <<n_turbines, hysteresis_dict, wd_store, controls_dict, measurements_dict,
      interface, last_sent>>

vars == <<pc, df_opt, args, ret, wake_steering_interpolant, controller_fields>>

----------------------------------------------------------------------------
(* Bounds of the model *)

\* longest table of arbitrary rows handed to check_df_opt_ordering
MaxRows == 4

\* the sampled offsets of the rate limiter's tables are 0..MaxLevel steps of
\* 5 degrees
MaxLevel == 1

\* the wind speed ramp breakpoints are drawn from 1..MaxBreakpoint m/s
MaxBreakpoint == 5

----------------------------------------------------------------------------
(* numpy helpers *)

Min(S) == CHOOSE x \in S : \A y \in S : x <= y
Max(S) == CHOOSE x \in S : \A y \in S : x >= y

Abs(x) == IF x < 0 THEN -x ELSE x

RECURSIVE SortedSeq(_)
SortedSeq(S) ==
    IF S = {} THEN <<>>
    ELSE LET m == Min(S) IN <<m>> \o SortedSeq(S \ {m})

\* np.unique of a column: the distinct values, ascending
np_unique(col) == SortedSeq({col[r] : r \in DOMAIN col})

Column(df, name) ==
    [r \in DOMAIN df |->
        CASE name = "wind_direction" -> df[r].wd
          [] name = "wind_speed" -> df[r].ws
          [] name = "turbulence_intensity" -> df[r].ti]

\* the flat (1-based) position of element (i, j, k) of an array of shape
\* (n1, n2, n3) in C order, as numpy's reshape lays it out
FlatIndex(i, j, k, n2, n3) == ((i - 1) * n2 + (j - 1)) * n3 + k

None == [status |-> "none"]

\* no controller has been constructed
NoController ==
    /\ n_turbines = None
    /\ hysteresis_dict = None
    /\ wd_store = None
    /\ controls_dict = None
    /\ measurements_dict = None
    /\ interface = None
    /\ last_sent = None
NoReturn == [status |-> "none"]
Returned == [status |-> "ok"]
Raised(kind, msg) == [status |-> "error", error |-> kind, msg |-> msg]

----------------------------------------------------------------------------
(* check_df_opt_ordering *)

\* the check without its second half: only the row count is compared
check_df_opt_ordering_count_only(df) ==
    LET wd_unique == np_unique(Column(df, "wind_direction"))
        ws_unique == np_unique(Column(df, "wind_speed"))
        ti_unique == np_unique(Column(df, "turbulence_intensity"))
    IN  IF Len(df) # Len(wd_unique) * Len(ws_unique) * Len(ti_unique)
        THEN Raised("ValueError", "all combinations must be specified")
        ELSE Returned

check_df_opt_ordering(df) ==
    LET wd_unique == np_unique(Column(df, "wind_direction"))
        ws_unique == np_unique(Column(df, "wind_speed"))
        ti_unique == np_unique(Column(df, "turbulence_intensity"))
        n2 == Len(ws_unique)
        n3 == Len(ti_unique)
        Cells == (DOMAIN wd_unique) \X (DOMAIN ws_unique) \X (DOMAIN ti_unique)
        At(c) == df[FlatIndex(c[1], c[2], c[3], n2, n3)]
    IN  IF Len(df) # Len(wd_unique) * Len(ws_unique) * Len(ti_unique)
        THEN Raised("ValueError", "all combinations must be specified")
        ELSE IF \/ ~ \A c \in Cells : At(c).wd = wd_unique[c[1]]
                \/ ~ \A c \in Cells : At(c).ws = ws_unique[c[2]]
                \/ ~ \A c \in Cells : At(c).ti = ti_unique[c[3]]
        THEN Raised("ValueError", "must be ordered by wd, then ws, then ti")
        ELSE Returned

----------------------------------------------------------------------------
(* Specification SpecOrdering: check_df_opt_ordering on arbitrary tables *)

OrderingWds == {0, 90}
OrderingWss == {8, 9}
OrderingTis == {6, 8}

OrderingRows ==
    [wd : OrderingWds, ws : OrderingWss, ti : OrderingTis, yaw : {<<0>>}]

OrderingTables == UNION {[1..n -> OrderingRows] : n \in 0..MaxRows}

InitOrdering ==
    /\ pc = "call"
    /\ df_opt \in OrderingTables
    /\ args = [fn |-> "check_df_opt_ordering"]
    /\ ret = NoReturn
    /\ wake_steering_interpolant = None
    /\ NoController

CallCheckDfOptOrdering ==
    /\ pc = "call"
    /\ args.fn = "check_df_opt_ordering"
    /\ ret' = check_df_opt_ordering(df_opt)
    /\ pc' = "done"
    /\ UNCHANGED <<df_opt, args, wake_steering_interpolant>>
    /\ UNCHANGED controller_fields

NextOrdering == CallCheckDfOptOrdering

SpecOrdering == InitOrdering /\ [][NextOrdering]_vars

----------------------------------------------------------------------------
(* apply_static_rate_limits *)

\* number of turbines: offsets_all.shape[-1]
NumTurbines(df) == Len(df[1].yaw)

\* offsets_all.reshape((len(wd), len(ws), len(ti), turbines)): the 4D array as
\* a function of the index (i, j, k, t)
reshape_4d(df, n1, n2, n3) ==
    [c \in (1..n1) \X (1..n2) \X (1..n3) \X (1..NumTurbines(df)) |->
        df[FlatIndex(c[1], c[2], c[3], n2, n3)].yaw[c[4]]]

\* offsets_array.reshape((rows, turbines)) written back into a copy of df
with_offsets(df, A, n2, n3) ==
    [r \in DOMAIN df |->
        LET k == ((r - 1) % n3) + 1
            j == (((r - 1) \div n3) % n2) + 1
            i == ((r - 1) \div (n2 * n3)) + 1
        IN  [df[r] EXCEPT !.yaw = [t \in DOMAIN df[r].yaw |-> A[<<i, j, k, t>>]]]]

np_maximum(a, b) == IF a >= b THEN a ELSE b
np_minimum(a, b) == IF a <= b THEN a ELSE b

\* a clip that forgets the lower end of the range
np_clip_upper_only(x, lo, hi) == np_minimum(x, hi)

\* np.clip(x, lo, hi) = minimum(maximum(x, lo), hi)
np_clip(x, lo, hi) == np_minimum(np_maximum(x, lo), hi)

\* a forward sweep that clips each delta but adds it to the unlimited
\* predecessor, so that a clipped step is not propagated
limited_lr_no_propagation(A, d, limit) ==
    [c \in DOMAIN A |->
        IF c[d] = 1 THEN A[c]
        ELSE LET p == A[[c EXCEPT ![d] = @ - 1]]
             IN  p + np_clip(A[c] - p, -limit, limit)]

\* the forward sweep along axis d (1 = wd, 2 = ws, 3 = ti): each delta to the
\* already limited predecessor is clipped to [-limit, limit]
limited_lr(A, d, limit) ==
    LET lr[c \in DOMAIN A] ==
            IF c[d] = 1 THEN A[c]
            ELSE LET p == lr[[c EXCEPT ![d] = @ - 1]]
                 IN  p + np_clip(A[c] - p, -limit, limit)
    IN  lr

\* the backward sweep along axis d, n the length of the axis
limited_rl(A, d, n, limit) ==
    LET rl[c \in DOMAIN A] ==
            IF c[d] = n THEN A[c]
            ELSE LET q == rl[[c EXCEPT ![d] = @ + 1]]
                 IN  q + np_clip(A[c] - q, -limit, limit)
    IN  rl

\* a pass that adds the two sweeps without halving the sum
rate_limit_axis_not_halved(A, d, n, limit) ==
    LET lr == limited_lr(A, d, limit)
        rl == limited_rl(A, d, n, limit)
    IN  [c \in DOMAIN A |-> lr[c] + rl[c]]

\* one axis' pass: (offsets_limited_lr + offsets_limited_rl) / 2
rate_limit_axis(A, d, n, limit) ==
    LET lr == limited_lr(A, d, limit)
        rl == limited_rl(A, d, n, limit)
    IN  [c \in DOMAIN A |-> (lr[c] + rl[c]) \div 2]

apply_static_rate_limits(df, wd_rate_limit, ws_rate_limit, ti_rate_limit) ==
    LET wd_array == np_unique(Column(df, "wind_direction"))
        ws_array == np_unique(Column(df, "wind_speed"))
        ti_array == np_unique(Column(df, "turbulence_intensity"))
    IN  IF Len(df) = 0
        THEN Raised("ValueError", "need at least one array to concatenate")
        ELSE IF Len(wd_array) < 2
        THEN Raised("IndexError", "wd_array[1]")
        ELSE IF Len(ws_array) < 2
        THEN Raised("IndexError", "ws_array[1]")
        ELSE IF check_df_opt_ordering(df).status = "error"
        THEN check_df_opt_ordering(df)
        ELSE
        LET wd_step == wd_array[2] - wd_array[1]
            ws_step == ws_array[2] - ws_array[1]
            ti_step == IF Len(ti_array) > 1 THEN ti_array[2] - ti_array[1] ELSE 1
            n1 == Len(wd_array)
            n2 == Len(ws_array)
            n3 == Len(ti_array)
            offsets_array == reshape_4d(df, n1, n2, n3)
            after_wd == rate_limit_axis(offsets_array, 1, n1, wd_rate_limit * wd_step)
            after_ws == rate_limit_axis(after_wd, 2, n2, ws_rate_limit * ws_step)
            after_ti == rate_limit_axis(after_ws, 3, n3, ti_rate_limit * ti_step)
        IN  [status |-> "ok", table |-> with_offsets(df, after_ti, n2, n3)]

----------------------------------------------------------------------------
(* Specification SpecRateLimit: apply_static_rate_limits, applied to a      *)
(* table and then once more to its own output                               *)

\* one degree of offset, in the unit the offsets are counted in: three
\* halvings (one per axis) of whole multiples of it stay whole
OffsetScale == 8

\* the sampled offsets are multiples of 5 degrees
LevelStep == 5 * OffsetScale

RateLevels == 0..MaxLevel

\* the grids (uniformly spaced axes) and turbine counts of the tables
RateShapes ==
    { [wds |-> <<0, 2, 4>>, wss |-> <<8, 9>>, tis |-> <<6>>, nt |-> 1],
      [wds |-> <<268, 270>>, wss |-> <<7, 8>>, tis |-> <<6, 8>>, nt |-> 1],
      [wds |-> <<0, 180>>, wss |-> <<8, 10>>, tis |-> <<6>>, nt |-> 2],
      [wds |-> <<0, 5>>, wss |-> <<8>>, tis |-> <<6>>, nt |-> 1],
      [wds |-> <<270>>, wss |-> <<8, 9>>, tis |-> <<6>>, nt |-> 1] }

ShapeRows(shape) == Len(shape.wds) * Len(shape.wss) * Len(shape.tis)

\* the table of a shape: one row per combination, wind direction slowest,
\* with the offsets offs[row][turbine]
BuildTable(shape, offs) ==
    LET n2 == Len(shape.wss)
        n3 == Len(shape.tis)
    IN  [r \in 1..ShapeRows(shape) |->
            [wd |-> shape.wds[((r - 1) \div (n2 * n3)) + 1],
             ws |-> shape.wss[(((r - 1) \div n3) % n2) + 1],
             ti |-> shape.tis[((r - 1) % n3) + 1],
             yaw |-> offs[r]]]

\* the offsets of a row whose first turbine is at level l: a second turbine
\* steers the opposite way
LevelOffsets(l, nt) ==
    [t \in 1..nt |-> IF t = 1 THEN l * LevelStep ELSE (MaxLevel - l) * LevelStep]

\* the table of the full circle at 45 degrees and two wind speeds of a
\* turbine that steers by 25 degrees just before the direction 0 and by
\* -25 degrees at it: the offset is 25 degrees at 315, -25 at 0, 0 elsewhere
SeamShape ==
    [wds |-> [i \in 1..8 |-> 45 * (i - 1)], wss |-> <<8, 9>>, tis |-> <<6>>, nt |-> 1]

SeamTable ==
    BuildTable(SeamShape,
               [r \in 1..ShapeRows(SeamShape) |->
                    << CASE r \in {1, 2} -> -25 * OffsetScale
                         [] r \in {15, 16} -> 25 * OffsetScale
                         [] OTHER -> 0 >>])

RateTables ==
    {SeamTable} \cup
    UNION { { BuildTable(shape, [r \in 1..ShapeRows(shape) |->
                                    LevelOffsets(lv[r], shape.nt)]) :
                lv \in [1..ShapeRows(shape) -> RateLevels] } :
            shape \in RateShapes }

\* rate limits in offset units per degree, per m/s and per percent:
\* 0, 1 and 5 degrees
RateLimits == {0, OffsetScale, 5 * OffsetScale}

InitRateLimit ==
    /\ pc = "call"
    /\ df_opt \in RateTables
    /\ args \in [fn : {"apply_static_rate_limits"}, wd_rate_limit : RateLimits,
                 ws_rate_limit : RateLimits, ti_rate_limit : RateLimits]
    /\ ret = NoReturn
    /\ wake_steering_interpolant = None
    /\ NoController

CallApplyStaticRateLimits ==
    /\ pc = "call"
    /\ args.fn = "apply_static_rate_limits"
    /\ ret' = apply_static_rate_limits(df_opt, args.wd_rate_limit,
                                       args.ws_rate_limit, args.ti_rate_limit)
    /\ pc' = "done"
    /\ UNCHANGED <<df_opt, args, wake_steering_interpolant>>
    /\ UNCHANGED controller_fields

\* the returned table is handed to apply_static_rate_limits again
CallApplyStaticRateLimitsAgain ==
    /\ pc = "done"
    /\ args.fn = "apply_static_rate_limits"
    /\ ret.status = "ok"
    /\ df_opt' = ret.table
    /\ ret' = apply_static_rate_limits(ret.table, args.wd_rate_limit,
                                       args.ws_rate_limit, args.ti_rate_limit)
    /\ pc' = "again"
    /\ UNCHANGED <<args, wake_steering_interpolant>>
    /\ UNCHANGED controller_fields

NextRateLimit == CallApplyStaticRateLimits \/ CallApplyStaticRateLimitsAgain

SpecRateLimit == InitRateLimit /\ [][NextRateLimit]_vars

----------------------------------------------------------------------------
(* apply_wind_speed_ramps *)

RECURSIVE GCD(_, _)
GCD(a, b) == IF b = 0 THEN a ELSE GCD(b, a % b)

\* an exact fraction num/den in lowest terms (den > 0); den = 0 stands for
\* the NaN a 0/0 yields
Frac(n, d) ==
    IF d = 0 THEN [num |-> 0, den |-> 0]
    ELSE LET g == GCD(Abs(n), Abs(d))
             s == IF d < 0 THEN -1 ELSE 1
         IN  [num |-> (s * n) \div g, den |-> (s * d) \div g]

FracAdd(a, b) ==
    IF a.den = 0 \/ b.den = 0 THEN Frac(0, 0)
    ELSE LET l == (a.den \div GCD(a.den, b.den)) * b.den
         IN  Frac(a.num * (l \div a.den) + b.num * (l \div b.den), l)
FracMul(a, b) ==
    IF a.den = 0 \/ b.den = 0 THEN Frac(0, 0)
    ELSE LET g1 == GCD(Abs(a.num), b.den)
             g2 == GCD(Abs(b.num), a.den)
         IN  Frac((a.num \div g1) * (b.num \div g2),
                  (a.den \div g2) * (b.den \div g1))

\* np.argsort(x, kind="mergesort"): the stable ascending order of x, as the
\* sequence of the indices of x
np_argsort(x) ==
    LET Rank(i) == Cardinality({j \in DOMAIN x :
                        x[j] < x[i] \/ (x[j] = x[i] /\ j < i)}) + 1
    IN  [k \in DOMAIN x |-> CHOOSE i \in DOMAIN x : Rank(i) = k]

\* np.searchsorted(x, v) (side "left"): the number of entries below v
np_searchsorted(x, v) == Cardinality({j \in DOMAIN x : x[j] < v})

\* scipy's interp1d (linear, bounds_error=False, fill_value=0) on the sorted
\* knots x with values y, evaluated at x_new
interp1d_call(x, y, x_new) ==
    LET n == Len(x)
        idx == np_clip(np_searchsorted(x, x_new), 1, n - 1)
        lo == idx          \* 1-based position of x[idx - 1]
        hi == idx + 1
        den == x[hi] - x[lo]
    IN  IF x_new < x[1] \/ x_new > x[n]
        THEN Frac(0, 1)
        ELSE Frac(y[lo] * den + (y[hi] - y[lo]) * (x_new - x[lo]), den)

\* interp1d sorts unsorted knots (assume_sorted=False) before it interpolates
interp1d(x, y, x_new) ==
    LET ind == np_argsort(x)
    IN  interp1d_call([k \in DOMAIN x |-> x[ind[k]]],
                      [k \in DOMAIN x |-> y[ind[k]]], x_new)

\* np.arange(start, stop, step) for step > 0
np_arange(start, stop, step) ==
    LET n == IF stop > start THEN (stop - start + step - 1) \div step ELSE 0
    IN  [k \in 1..n |-> start + (k - 1) * step]

RampRaised(msg) ==
    [status |-> "error", error |-> "ValueError", msg |-> msg, interpolated |-> 0]

\* the breakpoint check without its last comparison
ramp_values_ordered_no_cut_out(a) ==
    /\ a.ws_wake_steering_cut_in <= a.ws_wake_steering_fully_engaged_low
    /\ a.ws_wake_steering_fully_engaged_low <= a.ws_wake_steering_fully_engaged_high

ramp_values_ordered(a) ==
    /\ a.ws_wake_steering_cut_in <= a.ws_wake_steering_fully_engaged_low
    /\ a.ws_wake_steering_fully_engaged_low <= a.ws_wake_steering_fully_engaged_high
    /\ a.ws_wake_steering_fully_engaged_high <= a.ws_wake_steering_cut_out

apply_wind_speed_ramps(df, a) ==
    LET ws_specified == np_unique(Column(df, "wind_speed"))
        wind_speed_ramps ==
            << a.ws_min, a.ws_wake_steering_cut_in,
               a.ws_wake_steering_fully_engaged_low,
               a.ws_wake_steering_fully_engaged_high,
               a.ws_wake_steering_cut_out, a.ws_max >>
        \* the six stacked copies of one offset: 0, 0, given, given, 0, 0
        offsets_ramps(s) == <<0, 0, s, s, 0, 0>>
        wind_speed_all == np_arange(a.ws_min, a.ws_max, a.ws_resolution)
        n == Len(df)
    IN  IF check_df_opt_ordering(df).status = "error"
        THEN RampRaised(check_df_opt_ordering(df).msg)
        ELSE IF ~ ramp_values_ordered(a)
        THEN RampRaised("ramp values must be in the order cut in, low, high, cut out")
        ELSE IF Len(ws_specified) > 1
        THEN RampRaised("only a dataframe with a single wind speed")
        ELSE IF Len(df) = 0
        THEN RampRaised("need at least one array to concatenate")
        ELSE IF \/ ws_specified[1] < a.ws_wake_steering_fully_engaged_low
                \/ ws_specified[1] > a.ws_wake_steering_fully_engaged_high
        THEN RampRaised("provided wind speed must be between fully engaged limits")
        ELSE
        [status |-> "ok",
         interpolated |-> Len(wind_speed_all),
         \* row w * len(df_opt) + r: wind speeds repeated, the source rows tiled
         table |->
            [q \in 1..(Len(wind_speed_all) * n) |->
                LET w == ((q - 1) \div n) + 1
                    r == ((q - 1) % n) + 1
                IN  [wd |-> df[r].wd,
                     ws |-> wind_speed_all[w],
                     ti |-> df[r].ti,
                     yaw |-> [t \in DOMAIN df[r].yaw |->
                                interp1d(wind_speed_ramps,
                                         offsets_ramps(df[r].yaw[t]),
                                         wind_speed_all[w])]]]]

----------------------------------------------------------------------------
(* Specification SpecRamp: apply_wind_speed_ramps *)

\* source tables: one or two directions, one or two turbulence intensities,
\* one wind speed (and one table with two wind speeds), offsets in degrees
RampTables ==
    { << [wd |-> 270, ws |-> 3, ti |-> 6, yaw |-> <<20>>] >>,
      << [wd |-> 0, ws |-> 3, ti |-> 6, yaw |-> <<20, -5>>],
         [wd |-> 180, ws |-> 3, ti |-> 6, yaw |-> <<-10, 15>>] >>,
      << [wd |-> 270, ws |-> 3, ti |-> 6, yaw |-> <<20>>],
         [wd |-> 270, ws |-> 3, ti |-> 8, yaw |-> <<10>>] >>,
      << [wd |-> 270, ws |-> 3, ti |-> 6, yaw |-> <<20>>],
         [wd |-> 270, ws |-> 4, ti |-> 6, yaw |-> <<10>>] >> }

RampBreakpoints == 1..MaxBreakpoint

RampArgs ==
    [fn : {"apply_wind_speed_ramps"},
     ws_resolution : {1, 2},
     ws_min : {0, 1, 3},
     ws_max : {MaxBreakpoint, MaxBreakpoint + 2},
     ws_wake_steering_cut_in : RampBreakpoints,
     ws_wake_steering_fully_engaged_low : RampBreakpoints,
     ws_wake_steering_fully_engaged_high : RampBreakpoints,
     ws_wake_steering_cut_out : RampBreakpoints]

InitRamp ==
    /\ pc = "call"
    /\ df_opt \in RampTables
    /\ args \in RampArgs
    /\ ret = NoReturn
    /\ wake_steering_interpolant = None
    /\ NoController

CallApplyWindSpeedRamps ==
    /\ pc = "call"
    /\ args.fn = "apply_wind_speed_ramps"
    /\ ret' = apply_wind_speed_ramps(df_opt, args)
    /\ pc' = "done"
    /\ UNCHANGED <<df_opt, args, wake_steering_interpolant>>
    /\ UNCHANGED controller_fields

NextRamp == CallApplyWindSpeedRamps

SpecRamp == InitRamp /\ [][NextRamp]_vars

----------------------------------------------------------------------------
(* compute_hysteresis_zones *)

\* an offset x (in 1/OffsetScale degree) is below 0.1 degree, above -0.1 degree
BelowPositiveThreshold(x) == 10 * x < OffsetScale
AboveNegativeThreshold(x) == 10 * x > -OffsetScale

\* a switching test that also takes a drop of the offset for a switch
is_switch_either_sign(delta, threshold) == Abs(delta) >= threshold

\* np.diff(offsets, axis=0) >= yaw_rate_threshold*wd_step, for one entry
is_switch(delta, threshold) == delta >= threshold

\* a widening that moves only the upper bound
widen_upper_only(lb, ub, min_region_width) ==
    IF (ub - lb) < min_region_width
    THEN [lb |-> 2 * lb, ub |-> 2 * (lb + min_region_width)]
    ELSE [lb |-> 2 * lb, ub |-> 2 * ub]

\* the region (lb, ub) in degrees after the width check, in half degrees:
\* center_point -/+ min_region_width/2 when it is too narrow
widen(lb, ub, min_region_width) ==
    IF (ub - lb) < min_region_width
    THEN [lb |-> (lb + ub) - min_region_width, ub |-> (lb + ub) + min_region_width]
    ELSE [lb |-> 2 * lb, ub |-> 2 * ub]

\* yaw_rate_threshold is counted in 1/OffsetScale degree per degree.  The
\* result maps each turbine index t with a switching point (the key
\* "T{:03d}".format(t)) to its regions; detected are the regions before the
\* width check, in degrees.
compute_hysteresis_zones(df, min_region_width, yaw_rate_threshold) ==
    LET wd_unique == np_unique(Column(df, "wind_direction"))
        n1 == Len(wd_unique)
        n2 == Len(np_unique(Column(df, "wind_speed")))
        n3 == Len(np_unique(Column(df, "turbulence_intensity")))
    IN  IF check_df_opt_ordering(df).status = "error"
        THEN check_df_opt_ordering(df)
        ELSE IF Len(df) = 0
        THEN Raised("ValueError", "need at least one array to concatenate")
        ELSE IF n1 = 1
        THEN Raised("ValueError", "cannot compute hysteresis regions for single wind direction")
        ELSE
        LET offsets_unwrapped == reshape_4d(df, n1, n2, n3)
            nt == NumTurbines(df)
            wd_step == wd_unique[2] - wd_unique[1]
            wrap == (wd_unique[1] - wd_step < 0) /\ (wd_unique[n1] + wd_step >= 360)
            wind_directions ==
                IF wrap THEN Append(wd_unique, wd_unique[n1] + wd_step) ELSE wd_unique
            nw == Len(wind_directions)
            \* offsets with offsets[0:1] appended when wrapped
            offsets(i, j, k, t) ==
                offsets_unwrapped[<<IF i > n1 THEN 1 ELSE i, j, k, t>>]
            \* wd_centers, in half degrees
            wd_centers == [i \in 1..(nw - 1) |-> 2 * wd_unique[i] + wd_step]
            switching_idx(t) ==
                {i \in 1..(nw - 1) :
                    \E j \in 1..n2, k \in 1..n3 :
                        is_switch(offsets(i + 1, j, k, t) - offsets(i, j, k, t),
                                  yaw_rate_threshold * wd_step)}
            turbines == {t \in 1..nt : switching_idx(t) # {}}
            switch_points(t) == SortedSeq(switching_idx(t))
            lower(t, i) ==
                {wind_directions[m] : m \in
                    {q \in 1..nw :
                        /\ 2 * wind_directions[q] < wd_centers[i]
                        /\ \E j \in 1..n2, k \in 1..n3 :
                              BelowPositiveThreshold(offsets(q, j, k, t))}}
            upper(t, i) ==
                {wind_directions[m] : m \in
                    {q \in 1..nw :
                        /\ 2 * wind_directions[q] > wd_centers[i]
                        /\ \E j \in 1..n2, k \in 1..n3 :
                              AboveNegativeThreshold(offsets(q, j, k, t))}}
        IN  IF \E t \in turbines : \E i \in switching_idx(t) :
                    lower(t, i) = {} \/ upper(t, i) = {}
            THEN Raised("ValueError", "zero-size array to reduction operation")
            ELSE
            [status |-> "ok",
             switch_points |->
                [t \in {u - 1 : u \in turbines} |->
                    [s \in DOMAIN switch_points(t + 1) |->
                        wd_centers[switch_points(t + 1)[s]]]],
             detected |->
                [t \in {u - 1 : u \in turbines} |->
                    [s \in DOMAIN switch_points(t + 1) |->
                        [lb |-> Max(lower(t + 1, switch_points(t + 1)[s])),
                         ub |-> Min(upper(t + 1, switch_points(t + 1)[s]))]]],
             hysteresis_dict |->
                [t \in {u - 1 : u \in turbines} |->
                    [s \in DOMAIN switch_points(t + 1) |->
                        widen(Max(lower(t + 1, switch_points(t + 1)[s])),
                              Min(upper(t + 1, switch_points(t + 1)[s])),
                              min_region_width)]]]

----------------------------------------------------------------------------
(* Specification SpecHysteresis: compute_hysteresis_zones *)

\* the table of the full circle at 5 degrees, one wind speed and one
\* turbulence intensity, whose offset is 20 degrees for the directions in
\* [260, 280] and 0 elsewhere, for each of nt turbines
PulseShape(nt) ==
    [wds |-> [i \in 1..72 |-> 5 * (i - 1)], wss |-> <<8>>, tis |-> <<6>>, nt |-> nt]

PulseTable(nt) ==
    BuildTable(PulseShape(nt),
        [r \in 1..72 |->
            [t \in 1..nt |->
                IF 5 * (r - 1) >= 260 /\ 5 * (r - 1) <= 280
                THEN 20 * OffsetScale ELSE 0]])

HystShapes ==
    { [wds |-> <<0, 120, 240>>, wss |-> <<8>>, tis |-> <<6>>, nt |-> 1],
      [wds |-> <<100, 105, 110, 115>>, wss |-> <<8>>, tis |-> <<6>>, nt |-> 1],
      [wds |-> <<350, 355>>, wss |-> <<8, 9>>, tis |-> <<6>>, nt |-> 2],
      [wds |-> <<270>>, wss |-> <<8>>, tis |-> <<6, 8>>, nt |-> 1] }

\* offsets of -20, 0 and 20 degrees per level
HystLevels == (-MaxLevel)..MaxLevel

HystOffsets(l, nt) ==
    [t \in 1..nt |-> (IF t = 1 THEN l ELSE -l) * 20 * OffsetScale]

\* a table whose offset rises from 5 to 20 degrees between its two directions
RisingTable ==
    BuildTable([wds |-> <<260, 270>>, wss |-> <<8>>, tis |-> <<6>>, nt |-> 1],
               << <<5 * OffsetScale>>, <<20 * OffsetScale>> >>)

HystTables ==
    {PulseTable(1), PulseTable(2), RisingTable} \cup
    UNION { { BuildTable(shape, [r \in 1..ShapeRows(shape) |->
                                    HystOffsets(lv[r], shape.nt)]) :
                lv \in [1..ShapeRows(shape) -> HystLevels] } :
            shape \in HystShapes }

\* thresholds of 1/8, 1 and 4 degrees per degree, and the default 10
HystThresholds == {1, OffsetScale, 4 * OffsetScale, 10 * OffsetScale}

\* minimum widths in degrees
HystWidths == {0, 2, 8, 300}

InitHysteresis ==
    /\ pc = "call"
    /\ df_opt \in HystTables
    /\ args \in [fn : {"compute_hysteresis_zones"},
                 min_region_width : HystWidths,
                 yaw_rate_threshold : HystThresholds]
    /\ ret = NoReturn
    /\ wake_steering_interpolant = None
    /\ NoController

CallComputeHysteresisZones ==
    /\ pc = "call"
    /\ args.fn = "compute_hysteresis_zones"
    /\ ret' = compute_hysteresis_zones(df_opt, args.min_region_width,
                                       args.yaw_rate_threshold)
    /\ pc' = "done"
    /\ UNCHANGED <<df_opt, args, wake_steering_interpolant>>
    /\ UNCHANGED controller_fields

NextHysteresis == CallComputeHysteresisZones

SpecHysteresis == InitHysteresis /\ [][NextHysteresis]_vars

----------------------------------------------------------------------------
(* get_yaw_angles_interpolant and the yaw_angle_interpolant it returns *)

\* the sentinel bounds -1.0 and 999.0 of the wind speed axis (m/s) and of the
\* turbulence intensity axis (percent)
WsLowerSentinel == -1
WsUpperSentinel == 999
TiLowerSentinel == -100
TiUpperSentinel == 99900

\* np.median of an ascending array whose two middle entries have an even sum
np_median(sorted) ==
    LET n == Len(sorted)
    IN  IF n % 2 = 1 THEN sorted[(n + 1) \div 2]
        ELSE (sorted[n \div 2] + sorted[(n \div 2) + 1]) \div 2

\* RegularGridInterpolator requires strictly ascending points
StrictlyAscending(grid) ==
    \A i \in 1..(Len(grid) - 1) : grid[i] < grid[i + 1]

\* a wrap test that wraps whatever the first direction is
wraps_always(wind_directions) == TRUE

\* wind_directions[0] == 0.0
wraps(wind_directions) == wind_directions[1] = 0

\* padding that puts zero offsets at the sentinels
pad_with_zeros(yaw_offsets, c, n1, n2, n3) ==
    IF c[2] \in 2..(n2 + 1) /\ c[3] \in 2..(n3 + 1)
    THEN yaw_offsets[<< IF c[1] > n1 THEN 1 ELSE c[1], c[2] - 1, c[3] - 1, c[4] >>]
    ELSE 0

\* the padded array at index c: the first row again at 360, the first and
\* last wind speeds and turbulence intensities again at the sentinels
pad_with_edges(yaw_offsets, c, n1, n2, n3) ==
    yaw_offsets[<< IF c[1] > n1 THEN 1 ELSE c[1],
                   np_clip(c[2] - 1, 1, n2),
                   np_clip(c[3] - 1, 1, n3),
                   c[4] >>]

get_yaw_angles_interpolant(df) ==
    LET wd_unique == np_unique(Column(df, "wind_direction"))
        ws_unique == np_unique(Column(df, "wind_speed"))
        ti_unique == np_unique(Column(df, "turbulence_intensity"))
        n1 == Len(wd_unique)
        n2 == Len(ws_unique)
        n3 == Len(ti_unique)
    IN  IF check_df_opt_ordering(df).status = "error"
        THEN check_df_opt_ordering(df)
        ELSE IF Len(df) = 0
        THEN Raised("ValueError", "need at least one array to concatenate")
        ELSE
        LET yaw_offsets == reshape_4d(df, n1, n2, n3)
            wrap == wraps(wd_unique)
            wind_directions == IF wrap THEN wd_unique \o <<360>> ELSE wd_unique
            wind_speeds == <<WsLowerSentinel>> \o ws_unique \o <<WsUpperSentinel>>
            turbulence_intensities ==
                <<TiLowerSentinel>> \o ti_unique \o <<TiUpperSentinel>>
            padded ==
                [c \in (DOMAIN wind_directions) \X (DOMAIN wind_speeds)
                        \X (DOMAIN turbulence_intensities) \X (1..NumTurbines(df)) |->
                    pad_with_edges(yaw_offsets, c, n1, n2, n3)]
        IN  IF ~ (/\ StrictlyAscending(wind_directions)
                  /\ StrictlyAscending(wind_speeds)
                  /\ StrictlyAscending(turbulence_intensities))
            THEN Raised("ValueError", "the points in a dimension must be strictly ascending")
            ELSE
            [status |-> "ok",
             wind_directions |-> wind_directions,
             wind_speeds |-> wind_speeds,
             turbulence_intensities |-> turbulence_intensities,
             yaw_offsets |-> padded,
             n_turbines |-> NumTurbines(df),
             ti_ref |-> np_median(ti_unique),
             wd_min |-> Min({wind_directions[i] : i \in DOMAIN wind_directions}),
             wd_max |-> Max({wind_directions[i] : i \in DOMAIN wind_directions}),
             ws_min |-> Min({wind_speeds[i] : i \in DOMAIN wind_speeds}),
             ws_max |-> Max({wind_speeds[i] : i \in DOMAIN wind_speeds}),
             ti_min |-> Min({turbulence_intensities[i] :
                                i \in DOMAIN turbulence_intensities}),
             ti_max |-> Max({turbulence_intensities[i] :
                                i \in DOMAIN turbulence_intensities})]

\* RegularGridInterpolator._find_indices: the (1-based) lower grid point of
\* the interval used for x
find_index(grid, x) == np_clip(np_searchsorted(grid, x) - 1, 0, Len(grid) - 2) + 1

\* the normalised distance of x from that grid point
norm_distance(grid, x) ==
    LET i == find_index(grid, x)
    IN  Frac(x - grid[i], grid[i + 1] - grid[i])

\* RegularGridInterpolator (method "linear") at one point, for turbine t: the
\* corners of the cell weighted by the products of the distances
evaluate_linear(f, wd, ws, ti, t) ==
    LET i == find_index(f.wind_directions, wd)
        j == find_index(f.wind_speeds, ws)
        k == find_index(f.turbulence_intensities, ti)
        y1 == norm_distance(f.wind_directions, wd)
        y2 == norm_distance(f.wind_speeds, ws)
        y3 == norm_distance(f.turbulence_intensities, ti)
        One == Frac(1, 1)
        Weight(e, y) == IF e = 1 THEN y ELSE FracAdd(One, FracMul(Frac(-1, 1), y))
        Term(e1, e2, e3) ==
            FracMul(Frac(f.yaw_offsets[<<i + e1, j + e2, k + e3, t>>], 1),
                    FracMul(Weight(e1, y1), FracMul(Weight(e2, y2), Weight(e3, y3))))
    IN  FracAdd(FracAdd(FracAdd(Term(0, 0, 0), Term(0, 0, 1)),
                        FracAdd(Term(0, 1, 0), Term(0, 1, 1))),
                FracAdd(FracAdd(Term(1, 0, 0), Term(1, 0, 1)),
                        FracAdd(Term(1, 1, 0), Term(1, 1, 1))))

\* a bounds check that rejects a query on a bound
out_of_bounds_closed(f, wd_array, ws_array, ti_array) ==
    \/ \E p \in DOMAIN wd_array : wd_array[p] <= f.wd_min \/ wd_array[p] >= f.wd_max
    \/ \E p \in DOMAIN ws_array : ws_array[p] <= f.ws_min \/ ws_array[p] >= f.ws_max
    \/ \E p \in DOMAIN ti_array : ti_array[p] <= f.ti_min \/ ti_array[p] >= f.ti_max

\* np.any(wd_array < wd_min) or np.any(wd_array > wd_max) or ...
out_of_bounds(f, wd_array, ws_array, ti_array) ==
    \/ \E p \in DOMAIN wd_array : wd_array[p] < f.wd_min \/ wd_array[p] > f.wd_max
    \/ \E p \in DOMAIN ws_array : ws_array[p] < f.ws_min \/ ws_array[p] > f.ws_max
    \/ \E p \in DOMAIN ti_array : ti_array[p] < f.ti_min \/ ti_array[p] > f.ti_max

\* an argument that is given (as opposed to None)
Given(v) == [status |-> "given", value |-> v]

\* the function get_yaw_angles_interpolant returns; ti_array is None or
\* Given(array).
\* The error message states the bounds of the three axes and the three
\* queried arrays.
yaw_angle_interpolant(f, wd_array, ws_array, ti_array_or_none) ==
    LET ti_array ==
            IF ti_array_or_none = None
            THEN [p \in DOMAIN wd_array |-> f.ti_ref]
            ELSE ti_array_or_none.value
    IN  IF out_of_bounds(f, wd_array, ws_array, ti_array)
        THEN [status |-> "error", error |-> "ValueError",
              msg |-> "Interpolator queried outside of allowable bounds",
              bounds |-> [wind_direction |-> <<f.wd_min, f.wd_max>>,
                          wind_speed |-> <<f.ws_min, f.ws_max>>,
                          turbulence_intensity |-> <<f.ti_min, f.ti_max>>],
              queried |-> [wind_direction |-> wd_array,
                           wind_speed |-> ws_array,
                           turbulence_intensity |-> ti_array]]
        ELSE [status |-> "ok",
              values |->
                [p \in DOMAIN wd_array |->
                    [t \in 1..f.n_turbines |->
                        evaluate_linear(f, wd_array[p], ws_array[p], ti_array[p], t)]]]

----------------------------------------------------------------------------
(* Specification SpecInterpolant: an interpolant is built from a table and  *)
(* queried once (it keeps no state between queries)                         *)

\* tables whose directions start at 0 and tables whose directions do not
InterpShapes ==
    { [wds |-> <<0, 120, 240>>, wss |-> <<8>>, tis |-> <<6>>, nt |-> 1],
      [wds |-> <<260, 270>>, wss |-> <<7, 9>>, tis |-> <<6>>, nt |-> 2],
      [wds |-> <<0, 180>>, wss |-> <<8>>, tis |-> <<6, 10>>, nt |-> 1],
      [wds |-> <<5, 355>>, wss |-> <<8>>, tis |-> <<6>>, nt |-> 1],
      [wds |-> <<0>>, wss |-> <<8, 10>>, tis |-> <<6>>, nt |-> 1] }

InterpTables ==
    UNION { { BuildTable(shape, [r \in 1..ShapeRows(shape) |->
                                    LevelOffsets(lv[r], shape.nt)]) :
                lv \in [1..ShapeRows(shape) -> RateLevels] } :
            shape \in InterpShapes }

\* queried directions: the ends of the sampled range and of the circle, one
\* degree beyond them, and a direction between two samples
QueryWds(df) ==
    LET sampled == np_unique(Column(df, "wind_direction"))
        lowest == sampled[1]
        highest == sampled[Len(sampled)]
    IN  {lowest - 1, lowest, lowest + 1, highest, highest + 1, 360, 361}

\* queried wind speeds: the sentinels, one unit beyond them, a sampled wind
\* speed, one below and one above all samples
QueryWss == {WsLowerSentinel - 1, WsLowerSentinel, 3, 8, 500,
             WsUpperSentinel, WsUpperSentinel + 1}

\* queried turbulence intensities (percent): the sentinels, 0.01 beyond
\* them, a sampled one, one below all samples and one half way between
\* the highest sample and the upper sentinel
QueryTis(df) ==
    LET sampled == np_unique(Column(df, "turbulence_intensity"))
    IN  {TiLowerSentinel - 1, TiLowerSentinel, 2, 6,
         (sampled[Len(sampled)] + TiUpperSentinel) \div 2,
         TiUpperSentinel, TiUpperSentinel + 1}

\* one query point, or two: the second is the first moved to direction 0 or
\* 360, or moved out of one axis' range
Queries(df) ==
    LET First == [wd : QueryWds(df), ws : QueryWss, ti : QueryTis(df)]
        Second(p) == { [p EXCEPT !.wd = 0], [p EXCEPT !.wd = 360],
                       [p EXCEPT !.wd = 400], [p EXCEPT !.ws = 1000],
                       [p EXCEPT !.ti = -200] }
        Pack(ps) == [wd_array |-> [i \in DOMAIN ps |-> ps[i].wd],
                     ws_array |-> [i \in DOMAIN ps |-> ps[i].ws],
                     ti_array |-> Given([i \in DOMAIN ps |-> ps[i].ti])]
    IN  { Pack(<<p>>) : p \in First }
        \cup { [Pack(<<p>>) EXCEPT !.ti_array = None] : p \in First }
        \cup UNION { { Pack(<<p, q>>) : q \in Second(p) } : p \in First }

InitInterpolant ==
    /\ pc = "call"
    /\ df_opt \in InterpTables
    /\ args = [fn |-> "get_yaw_angles_interpolant"]
    /\ ret = NoReturn
    /\ wake_steering_interpolant = None
    /\ NoController

CallGetYawAnglesInterpolant ==
    /\ pc = "call"
    /\ args.fn = "get_yaw_angles_interpolant"
    /\ wake_steering_interpolant' = get_yaw_angles_interpolant(df_opt)
    /\ pc' = "built"
    /\ UNCHANGED <<df_opt, args, ret>>
    /\ UNCHANGED controller_fields

CallYawAngleInterpolant ==
    /\ pc = "built"
    /\ wake_steering_interpolant.status = "ok"
    /\ \E q \in Queries(df_opt) :
        /\ args' = [fn |-> "yaw_angle_interpolant", wd_array |-> q.wd_array,
                    ws_array |-> q.ws_array, ti_array |-> q.ti_array]
        /\ ret' = yaw_angle_interpolant(wake_steering_interpolant,
                                        q.wd_array, q.ws_array, q.ti_array)
    /\ pc' = "queried"
    /\ UNCHANGED <<df_opt, wake_steering_interpolant>>
    /\ UNCHANGED controller_fields

NextInterpolant == CallGetYawAnglesInterpolant \/ CallYawAngleInterpolant

SpecInterpolant == InitInterpolant /\ [][NextInterpolant]_vars

----------------------------------------------------------------------------
(* LookupBasedWakeSteeringController: __init__ and wake_steering_angles.   *)
(* Yaw angles of controls_dict are exact fractions of a degree.             *)

\* the placeholder wind speed [8.0]*n_turbines of wake_steering_angles
PlaceholderWindSpeed == 8

\* the start-up wind direction [270.]*n_turbines of __init__
StartupWindDirection == 270

\* an initial condition that is a float, and one that is a list
ScalarIC(v) == [scalar |-> v]
ListIC(l) == [list |-> l]

\* the controller after a successful __init__, or the error __init__ raises
Constructed(interp, n, hyst, yaw_angles) ==
    [status |-> "ok",
     n_turbines |-> n,
     wake_steering_interpolant |-> interp,
     hysteresis_dict |-> hyst,
     controls_dict |-> [yaw_angles |-> yaw_angles],
     wd_store |-> [t \in 1..n |-> StartupWindDirection]]

\* __init__ without the test for hysteresis zones that come without offsets
init_accepts_hysteresis_only(num_turbines, yaw_IC, df_yaw, hyst) ==
    Constructed(IF df_yaw = None THEN None ELSE get_yaw_angles_interpolant(df_yaw.value),
                num_turbines, hyst,
                [t \in 1..num_turbines |-> Frac(0, 1)])

\* LookupBasedWakeSteeringController.__init__; df_yaw and hyst are None or
\* Given(...)
controller_init(num_turbines, yaw_IC, df_yaw, hyst) ==
    LET interp == IF df_yaw = None THEN None
                  ELSE get_yaw_angles_interpolant(df_yaw.value)
    IN  IF df_yaw = None /\ hyst # None
        THEN Raised("ValueError", "Hysteresis zones provided without yaw offsets.")
        ELSE IF interp.status = "error" THEN interp
        ELSE IF "list" \in DOMAIN yaw_IC
        THEN IF Len(yaw_IC.list) = num_turbines
             THEN Constructed(interp, num_turbines, hyst,
                              [t \in 1..num_turbines |-> Frac(yaw_IC.list[t], 1)])
             ELSE Raised("TypeError", "yaw initial condition should be a float or a list")
        ELSE Constructed(interp, num_turbines, hyst,
                         [t \in 1..num_turbines |-> Frac(yaw_IC.scalar, 1)])

\* "not wind_directions": the measurement is None or an empty list
is_bad(measurement) ==
    measurement = None \/ Len(measurement.value) = 0

\* a store that is overwritten with whatever was measured
wd_store_after_always_overwritten(store, measurement) ==
    IF measurement = None THEN <<>> ELSE measurement.value

\* self.wd_store after the step
wd_store_after(store, measurement) ==
    IF is_bad(measurement) THEN store ELSE measurement.value

\* the wind directions the step uses
wind_directions_used(store, measurement) ==
    IF is_bad(measurement) THEN store ELSE measurement.value

\* np.diag(interpolated_angles): turbine t's offset at query point t
np_diag(values) == [t \in DOMAIN values |-> values[t][t]]

\* a setpoint that is the zero offset itself when there is no table
yaw_setpoint_zero_without_table(interp, wind_directions, wind_speeds) ==
    IF interp = None
    THEN [status |-> "ok",
          yaw_setpoint |-> [t \in DOMAIN wind_directions |-> Frac(0, 1)]]
    ELSE
    LET interpolated_angles ==
            yaw_angle_interpolant(interp, wind_directions, wind_speeds, None)
    IN  IF interpolated_angles.status = "error" THEN interpolated_angles
        ELSE [status |-> "ok",
              yaw_setpoint |->
                [t \in DOMAIN wind_directions |->
                    FracAdd(Frac(wind_directions[t], 1),
                            FracMul(Frac(-1, OffsetScale),
                                    np_diag(interpolated_angles.values)[t]))]]

\* a setpoint that adds the offset
yaw_setpoint_offset_added(interp, wind_directions, wind_speeds) ==
    IF interp = None
    THEN [status |-> "ok",
          yaw_setpoint |-> [t \in DOMAIN wind_directions |->
                                Frac(wind_directions[t], 1)]]
    ELSE
    LET interpolated_angles ==
            yaw_angle_interpolant(interp, wind_directions, wind_speeds, None)
    IN  IF interpolated_angles.status = "error" THEN interpolated_angles
        ELSE [status |-> "ok",
              yaw_setpoint |->
                [t \in DOMAIN wind_directions |->
                    FracAdd(Frac(wind_directions[t], 1),
                            FracMul(Frac(1, OffsetScale),
                                    np_diag(interpolated_angles.values)[t]))]]

\* yaw_setpoint of wake_steering_angles ("look up wind direction"), in
\* degrees; the offsets of the table are in 1/OffsetScale degree
yaw_setpoint(interp, wind_directions, wind_speeds) ==
    IF interp = None
    THEN [status |-> "ok",
          yaw_setpoint |-> [t \in DOMAIN wind_directions |->
                                Frac(wind_directions[t], 1)]]
    ELSE
    LET interpolated_angles ==
            yaw_angle_interpolant(interp, wind_directions, wind_speeds, None)
    IN  IF interpolated_angles.status = "error" THEN interpolated_angles
        ELSE [status |-> "ok",
              yaw_setpoint |->
                [t \in DOMAIN wind_directions |->
                    FracAdd(Frac(wind_directions[t], 1),
                            FracMul(Frac(-1, OffsetScale),
                                    np_diag(interpolated_angles.values)[t]))]]

\* wake_steering_angles: what it raises or returns, and controls_dict after
\* it (wd_store has been written before anything can raise)
wake_steering_angles(interp, n, hyst, store, controls, measurement) ==
    LET wind_directions == wind_directions_used(store, measurement)
        wind_speeds == [t \in 1..n |-> PlaceholderWindSpeed]
        looked_up == yaw_setpoint(interp, wind_directions, wind_speeds)
    IN  IF looked_up.status = "error"
        THEN [ret |-> looked_up, controls_dict |-> controls]
        ELSE IF hyst # None
        THEN [ret |-> Raised("NotImplementedError", "Hysteresis not yet implemented."),
              controls_dict |-> controls]
        ELSE [ret |-> Returned,
              controls_dict |-> [yaw_angles |-> looked_up.yaw_setpoint]]

----------------------------------------------------------------------------
(* Specification SpecController: a controller is constructed and then      *)
(* stepped any number of times with measured, empty or missing wind        *)
(* directions                                                              *)

\* tables of the controllers: one that wraps, one of two turbines around the
\* start-up direction, one that does not reach the start-up direction
ControllerShapes ==
    { [wds |-> <<0, 120, 240>>, wss |-> <<8>>, tis |-> <<6>>, nt |-> 1],
      [wds |-> <<260, 270>>, wss |-> <<7, 9>>, tis |-> <<6>>, nt |-> 2],
      [wds |-> <<10, 100>>, wss |-> <<8>>, tis |-> <<6, 10>>, nt |-> 1] }

ControllerTables ==
    UNION { { BuildTable(shape, [r \in 1..ShapeRows(shape) |->
                                    LevelOffsets(lv[r], shape.nt)]) :
                lv \in [1..ShapeRows(shape) -> RateLevels] } :
            shape \in ControllerShapes }

\* hysteresis zones as compute_hysteresis_zones emits them (half degrees,
\* keyed by the turbine's index): one zone from 263 to 267 for every turbine
ControllerZones(n) == [t \in 0..(n - 1) |-> << <<2 * 263, 2 * 267>> >>]

\* the wind directions a step can receive, for one and for two turbines
Measurements(n) ==
    {None, Given(<<>>)}
    \cup (IF n = 1
          THEN {Given(<<55>>), Given(<<265>>), Given(<<271>>)}
          ELSE {Given(<<271, 272>>), Given(<<265, 265>>),
                Given(<<265, 272>>), Given(<<262, 268>>)})

InitController ==
    /\ pc = "new"
    /\ df_opt \in {Given(df) : df \in ControllerTables} \cup {None}
    /\ \E n \in 1..2, hyst \in BOOLEAN, list_IC \in BOOLEAN :
        /\ df_opt # None => n = NumTurbines(df_opt.value)
        /\ args = [fn |-> "LookupBasedWakeSteeringController",
                   num_turbines |-> n,
                   yaw_IC |-> IF list_IC THEN ListIC([t \in 1..n |-> 0])
                              ELSE ScalarIC(0),
                   hysteresis_dict |-> IF hyst THEN Given(ControllerZones(n))
                                       ELSE None]
    /\ ret = NoReturn
    /\ wake_steering_interpolant = None
    /\ NoController

\* the constructor returns a controller
ConstructController ==
    /\ pc = "new"
    /\ LET self == controller_init(args.num_turbines, args.yaw_IC,
                                   df_opt, args.hysteresis_dict)
       IN  /\ self.status = "ok"
           /\ n_turbines' = self.n_turbines
           /\ wake_steering_interpolant' = self.wake_steering_interpolant
           /\ hysteresis_dict' = self.hysteresis_dict
           /\ controls_dict' = self.controls_dict
           /\ wd_store' = self.wd_store
    /\ ret' = Returned
    /\ pc' = "ready"
    /\ UNCHANGED <<df_opt, args, measurements_dict, interface, last_sent>>

\* the constructor raises: there is no controller
ConstructControllerFails ==
    /\ pc = "new"
    /\ LET self == controller_init(args.num_turbines, args.yaw_IC,
                                   df_opt, args.hysteresis_dict)
       IN  /\ self.status = "error"
           /\ ret' = self
    /\ pc' = "failed"
    /\ UNCHANGED <<df_opt, args, wake_steering_interpolant, controller_fields>>

\* one control step: the measurements arrive and compute_controls runs
\* wake_steering_angles
StepController ==
    /\ pc = "ready"
    /\ \E measurement \in Measurements(n_turbines) :
        LET after == wake_steering_angles(wake_steering_interpolant, n_turbines,
                                          hysteresis_dict, wd_store, controls_dict,
                                          measurement)
        IN  /\ measurements_dict' = [wind_directions |-> measurement]
            /\ wd_store' = wd_store_after(wd_store, measurement)
            /\ controls_dict' = after.controls_dict
            /\ ret' = after.ret
            /\ args' = [fn |-> "wake_steering_angles"]
    /\ UNCHANGED <<pc, df_opt, wake_steering_interpolant, n_turbines, hysteresis_dict,
                   interface, last_sent>>

NextController ==
    ConstructController \/ ConstructControllerFails \/ StepController

SpecController == InitController /\ [][NextController]_vars

----------------------------------------------------------------------------
(* Specification SpecStages: each of the four tools that reshape the table *)
(* is called on an arbitrary table, ordered or not, complete or not        *)

StageArgs ==
    { [fn |-> "apply_static_rate_limits", wd_rate_limit |-> OffsetScale,
       ws_rate_limit |-> OffsetScale, ti_rate_limit |-> OffsetScale],
      [fn |-> "compute_hysteresis_zones", min_region_width |-> 2,
       yaw_rate_threshold |-> OffsetScale],
      [fn |-> "apply_wind_speed_ramps", ws_resolution |-> 1, ws_min |-> 0,
       ws_max |-> MaxBreakpoint, ws_wake_steering_cut_in |-> 1,
       ws_wake_steering_fully_engaged_low |-> 2,
       ws_wake_steering_fully_engaged_high |-> 3,
       ws_wake_steering_cut_out |-> 4],
      [fn |-> "get_yaw_angles_interpolant"] }

InitStages ==
    /\ pc = "call"
    /\ df_opt \in OrderingTables
    /\ args \in StageArgs
    /\ ret = NoReturn
    /\ wake_steering_interpolant = None
    /\ NoController

NextStages ==
    \/ CallApplyStaticRateLimits
    \/ CallComputeHysteresisZones
    \/ CallApplyWindSpeedRamps
    \/ CallGetYawAnglesInterpolant

SpecStages == InitStages /\ [][NextStages]_vars

----------------------------------------------------------------------------
(* The interfaces: check_controls and send_controls of ROSCO_ZMQInterface, *)
(* and check_controls of HerculesADInterface as its test describes it      *)

\* longest controls dictionary handed to check_controls
MaxKeys == 3

\* POWER_SETPOINT_DEFAULT of wind_farm_power_tracking_controller
POWER_SETPOINT_DEFAULT == 1000000000

\* "yaw_setpoint_{0:03d}".format(id) and "power_setpoint_{0:03d}".format(id)
yaw_setpoint_key(id) == <<"yaw_setpoint_001", "yaw_setpoint_002">>[id]
power_setpoint_key(id) == <<"power_setpoint_001", "power_setpoint_002">>[id]

\* "{name}_{0:03d}".format(id), for the ids a message can carry
turbine_key(name, id) == name \o <<"_001", "_002", "_003">>[id]

\* ROSCO_ZMQInterface.__init__
ROSCO_ZMQInterface ==
    [class |-> "ROSCO_ZMQInterface",
     n_turbines |-> 2,
     rosco_measurements |->
        [k \in {turbine_key(name, id) :
                    name \in {"yaw_angle", "vane", "power"}, id \in 1..2} |-> 0],
     rosco_setpoints |-> [k \in {yaw_setpoint_key(id) : id \in 1..2} |-> 0],
     rosco_time |-> 0]

\* HerculesADInterface(hercules_dict) with num_turbines = 2
HerculesADInterface ==
    [class |-> "HerculesADInterface", n_turbines |-> 2]

\* the first key, in the order of the dictionary (a sequence of
\* <<key, value>> pairs), that is not available
first_unavailable(controls, available_controls) ==
    LET bad == {i \in DOMAIN controls : controls[i][1] \notin available_controls}
    IN  IF bad = {} THEN 0 ELSE Min(bad)

\* a check that looks at the first key only
rosco_check_controls_first_key_only(controls) ==
    IF Len(controls) > 0 /\ controls[1][1] \notin {"yaw_angles", "power_setpoints"}
    THEN Raised("ValueError", controls[1][1])
    ELSE Returned

\* ROSCO_ZMQInterface.check_controls
rosco_check_controls(controls) ==
    LET available_controls == {"yaw_angles", "power_setpoints"}
        k == first_unavailable(controls, available_controls)
    IN  IF k # 0 THEN Raised("ValueError", controls[k][1]) ELSE Returned

\* HerculesADInterface.check_controls: the keys as above, then one value
\* per turbine for every control given
hercules_check_controls(n, controls) ==
    LET available_controls == {"yaw_angles", "power_setpoints"}
        k == first_unavailable(controls, available_controls)
    IN  IF k # 0 THEN Raised("ValueError", controls[k][1])
        ELSE IF \E i \in DOMAIN controls : Len(controls[i][2]) # n
        THEN Raised("ValueError", "length of setpoint is not the number of turbines")
        ELSE Returned

\* interface.check_controls(controls_dict)
check_controls(self, controls) ==
    IF self.class = "ROSCO_ZMQInterface" THEN rosco_check_controls(controls)
    ELSE hercules_check_controls(self.n_turbines, controls)

\* ROSCO_ZMQInterface.send_controls: rosco_setpoints afterwards
send_controls(self, yaw_angles_or_none, power_setpoints_or_none) ==
    LET yaw_angles ==
            IF yaw_angles_or_none = None THEN [id \in 1..self.n_turbines |-> 0]
            ELSE yaw_angles_or_none.value
        power_setpoints ==
            IF power_setpoints_or_none = None
            THEN [id \in 1..self.n_turbines |-> POWER_SETPOINT_DEFAULT]
            ELSE power_setpoints_or_none.value
        written == {yaw_setpoint_key(id) : id \in 1..self.n_turbines}
                   \cup {power_setpoint_key(id) : id \in 1..self.n_turbines}
    IN  [self EXCEPT !.rosco_setpoints =
            [key \in (DOMAIN self.rosco_setpoints) \cup written |->
                IF \E id \in 1..self.n_turbines : key = yaw_setpoint_key(id)
                THEN yaw_angles[CHOOSE id \in 1..self.n_turbines :
                                    key = yaw_setpoint_key(id)]
                ELSE power_setpoints[CHOOSE id \in 1..self.n_turbines :
                                        key = power_setpoint_key(id)]]]

\* the measurements rosco_wfc_zmq_server_wfc_controller stores: the name
\* under which each is stored, and its name in the message
StoredMeasurements ==
    << <<"status", "iStatus">>, <<"time", "Time">>,
       <<"mech_power", "VS_MechGenPwr">>, <<"power", "VS_GenPwr">>,
       <<"gen_speed", "GenSpeed">>, <<"rot_speed", "RotSpeed">>,
       <<"gen_torque", "GenTqMeas">>, <<"yaw_angle", "NacHeading">>,
       <<"vane", "NacVane">>, <<"wind_speed", "HorWindV">>,
       <<"root_MOOP1", "rootMOOP(1)">>, <<"root_MOOP2", "rootMOOP(2)">>,
       <<"root_MOOP3", "rootMOOP(3)">>, <<"FA_accel", "FA_Acc">>,
       <<"nac_imu_FA_accel", "NacIMU_FA_Acc">>, <<"azimuth_angle", "Azimuth">> >>

\* rosco_measurements after the measurements of a message were saved for
\* turbine id
save_measurements(rosco_measurements, id, measurements) ==
    LET saved == {turbine_key(StoredMeasurements[i][1], id) :
                    i \in DOMAIN StoredMeasurements}
    IN  [k \in (DOMAIN rosco_measurements) \cup saved |->
            IF k \in saved
            THEN measurements[StoredMeasurements[
                    CHOOSE i \in DOMAIN StoredMeasurements :
                        k = turbine_key(StoredMeasurements[i][1], id)][2]]
            ELSE rosco_measurements[k]]

\* a callback that saves the measurements without looking at the id
wfc_controller_without_id_check(self, id, current_time, measurements) ==
    LET saved == [self EXCEPT
                    !.rosco_time = current_time,
                    !.rosco_measurements =
                        save_measurements(self.rosco_measurements, id, measurements)]
        key == turbine_key("yaw_setpoint", id)
    IN  IF key \notin DOMAIN self.rosco_setpoints
        THEN [self |-> saved, ret |-> Raised("KeyError", key)]
        ELSE [self |-> saved,
              ret |-> [status |-> "ok",
                       setpoints |->
                         [ZMQ_YawOffset |-> self.rosco_setpoints[key],
                          ZMQ_PitOffset1 |-> 0,
                          ZMQ_PitOffset2 |-> 0,
                          ZMQ_PitOffset3 |-> 0]]]

\* ROSCO_ZMQInterface.rosco_wfc_zmq_server_wfc_controller: the interface
\* afterwards, and the setpoints returned or the error raised
rosco_wfc_zmq_server_wfc_controller(self, id, current_time, measurements) ==
    LET timed == [self EXCEPT !.rosco_time = current_time]
        saved == [timed EXCEPT
                    !.rosco_measurements =
                        save_measurements(self.rosco_measurements, id, measurements)]
        key == turbine_key("yaw_setpoint", id)
    IN  IF id # measurements["ZMQ_ID"]
        THEN [self |-> timed,
              ret |-> Raised("ValueError", "Inconsistent turbine ID.")]
        ELSE IF key \notin DOMAIN self.rosco_setpoints
        THEN [self |-> saved, ret |-> Raised("KeyError", key)]
        ELSE [self |-> saved,
              ret |-> [status |-> "ok",
                       setpoints |->
                         [ZMQ_YawOffset |-> self.rosco_setpoints[key],
                          ZMQ_PitOffset1 |-> 0,
                          ZMQ_PitOffset2 |-> 0,
                          ZMQ_PitOffset3 |-> 0]]]

----------------------------------------------------------------------------
(* Specification SpecInterface: controls are checked by, and sent through, *)
(* an interface                                                            *)

ControlKeys == {"yaw_angles", "power_setpoints", "yaw_angels", "unavailable_control"}

\* one value per turbine, or one too many
ControlValues == {<<270, 268>>, <<270, 268, 270>>}

\* dictionaries of up to MaxKeys distinct keys, in every order
ControlsDicts ==
    UNION { { d \in [1..n -> ControlKeys \X ControlValues] :
                \A i, j \in 1..n : i # j => d[i][1] # d[j][1] } :
            n \in 0..Min({MaxKeys, Cardinality(ControlKeys)}) }

InitInterface ==
    /\ pc = "ready"
    /\ interface \in {ROSCO_ZMQInterface, HerculesADInterface}
    /\ args = [fn |-> "__init__"]
    /\ ret = NoReturn
    /\ df_opt = None
    /\ wake_steering_interpolant = None
    /\ n_turbines = None /\ hysteresis_dict = None /\ wd_store = None
    /\ controls_dict = None /\ measurements_dict = None
    /\ last_sent = None

CallCheckControls ==
    /\ pc = "ready"
    /\ \E controls \in ControlsDicts :
        /\ args' = [fn |-> "check_controls", controls_dict |-> controls]
        /\ ret' = check_controls(interface, controls)
    /\ UNCHANGED <<pc, df_opt, wake_steering_interpolant, controller_fields>>

CallSendControls ==
    /\ pc = "ready"
    /\ interface.class = "ROSCO_ZMQInterface"
    /\ \E yaw_angles \in {None, Given(<<270, 268>>)},
          power_setpoints \in {None, Given(<<3000, 3000>>)} :
        /\ args' = [fn |-> "send_controls", yaw_angles |-> yaw_angles,
                    power_setpoints |-> power_setpoints]
        /\ interface' = send_controls(interface, yaw_angles, power_setpoints)
        /\ last_sent' = [yaw_angles |-> yaw_angles,
                         power_setpoints |-> power_setpoints]
    /\ ret' = Returned
    /\ UNCHANGED <<pc, df_opt, wake_steering_interpolant, n_turbines,
                   hysteresis_dict, wd_store, controls_dict, measurements_dict>>

NextInterface == CallCheckControls \/ CallSendControls

SpecInterface == InitInterface /\ [][NextInterface]_vars

----------------------------------------------------------------------------
(* Specification SpecServer: the controller sends controls through a       *)
(* ROSCO_ZMQInterface while the server calls it back for each turbine      *)

\* the simulation times of the messages
MessageTimes == {1, 2}

\* the message of the ROSCO instance zmq_id at a time, its nacelle at a
\* heading
Message(zmq_id, time, heading) ==
    [field \in {"ZMQ_ID"} \cup
               {StoredMeasurements[i][2] : i \in DOMAIN StoredMeasurements} |->
        CASE field = "ZMQ_ID" -> zmq_id
          [] field = "Time" -> time
          [] field = "NacHeading" -> heading
          [] field = "iStatus" -> 1
          [] field = "VS_GenPwr" -> 4800
          [] field = "VS_MechGenPwr" -> 5000
          [] field = "HorWindV" -> 8
          [] OTHER -> 0]

InitServer ==
    /\ pc = "ready"
    /\ interface = ROSCO_ZMQInterface
    /\ args = [fn |-> "__init__"]
    /\ ret = NoReturn
    /\ df_opt = None
    /\ wake_steering_interpolant = None
    /\ n_turbines = None /\ hysteresis_dict = None /\ wd_store = None
    /\ controls_dict = None /\ measurements_dict = None
    /\ last_sent = None

\* the server calls back with the message of a ROSCO instance
CallWfcController ==
    /\ pc = "ready"
    /\ \E id \in 1..3, zmq_id \in 1..3, time \in MessageTimes, heading \in {265, 270} :
        LET measurements == Message(zmq_id, time, heading)
            after == rosco_wfc_zmq_server_wfc_controller(interface, id, time,
                                                         measurements)
        IN  /\ args' = [fn |-> "rosco_wfc_zmq_server_wfc_controller", id |-> id,
                        current_time |-> time, measurements |-> measurements]
           /\ interface' = after.self
           /\ ret' = after.ret
    /\ UNCHANGED <<pc, df_opt, wake_steering_interpolant, n_turbines,
                   hysteresis_dict, wd_store, controls_dict, measurements_dict,
                   last_sent>>

NextServer == CallSendControls \/ CallWfcController

SpecServer == InitServer /\ [][NextServer]_vars

----------------------------------------------------------------------------
(* create_uniform_wind_rose: directions and wind speeds in 1/1000 degree   *)
(* and 1/1000 m/s, so that the 0.001 added to the upper bounds is one unit *)

\* 0.001, the margin added to an upper bound so that np.arange includes it
ArangeMargin == 1

\* 360 degrees, in 1/1000 degree
FullCircle == 360000

\* an upper bound that is never reduced
wd_max_never_reduced(wd_resolution, wd_min, wd_max) == wd_max

\* the upper bound of the directions: reduced by one step when the full
\* circle is requested
wd_max_sampled(wd_resolution, wd_min, wd_max) ==
    IF wd_min = 0 /\ wd_max = FullCircle THEN wd_max - wd_resolution ELSE wd_max

\* create_uniform_wind_rose: the arguments of WindRose
create_uniform_wind_rose(wd_resolution, wd_min, wd_max, ws_resolution, ws_min, ws_max, ti) ==
    [wind_speeds |-> np_arange(ws_min, ws_max + ArangeMargin, ws_resolution),
     wind_directions |->
        np_arange(wd_min,
                  wd_max_sampled(wd_resolution, wd_min, wd_max) + ArangeMargin,
                  wd_resolution),
     ti_table |-> ti]

----------------------------------------------------------------------------
(* Specification SpecWindRose: one call of create_uniform_wind_rose *)

\* resolutions that divide the circle and resolutions that do not, one of
\* them longer than the circle
WdResolutions == {5000, 7500, 30000, 50000, 90500, 180000, 360000, 400000}

WdMins == {0, 5000, 10000, 180000}

WdMaxs == {90000, 355000, 360000}

InitWindRose ==
    /\ pc = "call"
    /\ df_opt = None
    /\ \E wd_resolution \in WdResolutions, wd_min \in WdMins, wd_max \in WdMaxs,
          ws \in {<<1000, 8000, 8000>>, <<1000, 6000, 10000>>, <<2000, 3000, 8000>>} :
        args = [fn |-> "create_uniform_wind_rose",
                wd_resolution |-> wd_resolution, wd_min |-> wd_min,
                wd_max |-> wd_max, ws_resolution |-> ws[1], ws_min |-> ws[2],
                ws_max |-> ws[3], ti |-> 6]
    /\ ret = NoReturn
    /\ wake_steering_interpolant = None
    /\ NoController

CallCreateUniformWindRose ==
    /\ pc = "call"
    /\ ret' = [status |-> "ok",
               wind_rose |->
                   create_uniform_wind_rose(args.wd_resolution, args.wd_min,
                                            args.wd_max, args.ws_resolution,
                                            args.ws_min, args.ws_max, args.ti)]
    /\ pc' = "done"
    /\ UNCHANGED <<df_opt, args, wake_steering_interpolant, controller_fields>>

NextWindRose == CallCreateUniformWindRose

SpecWindRose == InitWindRose /\ [][NextWindRose]_vars

----------------------------------------------------------------------------
(* The OffsetTable invariant of the data model, stated on the rows *)

WdSet(df) == {df[r].wd : r \in DOMAIN df}
WsSet(df) == {df[r].ws : r \in DOMAIN df}
TiSet(df) == {df[r].ti : r \in DOMAIN df}

\* row a comes before row b when wind direction is the slowest key and
\* turbulence intensity the fastest
RowBefore(a, b) ==
    \/ a.wd < b.wd
    \/ a.wd = b.wd /\ a.ws < b.ws
    \/ a.wd = b.wd /\ a.ws = b.ws /\ a.ti < b.ti

EachCombinationOnce(df) ==
    \A w \in WdSet(df), s \in WsSet(df), t \in TiSet(df) :
        Cardinality({r \in DOMAIN df :
            df[r].wd = w /\ df[r].ws = s /\ df[r].ti = t}) = 1

IsRowMajorProduct(df) ==
    /\ Len(df) = Cardinality(WdSet(df)) * Cardinality(WsSet(df))
                    * Cardinality(TiSet(df))
    /\ EachCombinationOnce(df)
    /\ \A r1, r2 \in DOMAIN df : r1 < r2 => RowBefore(df[r1], df[r2])

\* C1: check_df_opt_ordering returns normally exactly for the tables whose
\* rows are the Cartesian product of their unique wind directions, wind
\* speeds and turbulence intensities, each combination once, enumerated
\* with wind direction slowest and turbulence intensity fastest (each axis
\* ascending); for every other table it raises.
C1_OrderingAcceptsExactlyRowMajor ==
    (pc = "done" /\ args.fn = "check_df_opt_ordering") =>
        /\ ret.status \in {"ok", "error"}
        /\ (ret.status = "ok") <=> IsRowMajorProduct(df_opt)

\* an accepted table with two directions and two wind speeds
C1_Witness ==
    /\ pc = "done"
    /\ args.fn = "check_df_opt_ordering"
    /\ ret.status = "ok"
    /\ Len(df_opt) = 4
    /\ Cardinality(WdSet(df_opt)) = 2
    /\ Cardinality(WsSet(df_opt)) = 2

----------------------------------------------------------------------------
(* Rate limiting *)

\* a and b are neighbours on the axis whose sampled values are S
Adjacent(S, a, b) == a \in S /\ b \in S /\ a < b /\ ~ \E c \in S : a < c /\ c < b

\* every pair of rows of tbl adjacent along one axis (the two other coordinates
\* equal) differs, for every turbine, by at most rate x the step between them
WdBound(tbl, rate) ==
    \A r1, r2 \in DOMAIN tbl :
        (/\ tbl[r1].ws = tbl[r2].ws
         /\ tbl[r1].ti = tbl[r2].ti
         /\ Adjacent(WdSet(tbl), tbl[r1].wd, tbl[r2].wd)) =>
            \A t \in DOMAIN tbl[r1].yaw :
                Abs(tbl[r2].yaw[t] - tbl[r1].yaw[t])
                    <= rate * (tbl[r2].wd - tbl[r1].wd)

WsBound(tbl, rate) ==
    \A r1, r2 \in DOMAIN tbl :
        (/\ tbl[r1].wd = tbl[r2].wd
         /\ tbl[r1].ti = tbl[r2].ti
         /\ Adjacent(WsSet(tbl), tbl[r1].ws, tbl[r2].ws)) =>
            \A t \in DOMAIN tbl[r1].yaw :
                Abs(tbl[r2].yaw[t] - tbl[r1].yaw[t])
                    <= rate * (tbl[r2].ws - tbl[r1].ws)

TiBound(tbl, rate) ==
    \A r1, r2 \in DOMAIN tbl :
        (/\ tbl[r1].wd = tbl[r2].wd
         /\ tbl[r1].ws = tbl[r2].ws
         /\ Adjacent(TiSet(tbl), tbl[r1].ti, tbl[r2].ti)) =>
            \A t \in DOMAIN tbl[r1].yaw :
                Abs(tbl[r2].yaw[t] - tbl[r1].yaw[t])
                    <= rate * (tbl[r2].ti - tbl[r1].ti)

AllBounds(tbl, a) ==
    /\ WdBound(tbl, a.wd_rate_limit)
    /\ WsBound(tbl, a.ws_rate_limit)
    /\ TiBound(tbl, a.ti_rate_limit)

RateLimitReturned ==
    /\ pc \in {"done", "again"}
    /\ args.fn = "apply_static_rate_limits"
    /\ ret.status = "ok"

\* C2: in the table apply_static_rate_limits returns, every turbine's
\* offsets at two samples adjacent along the wind-direction, wind-speed or
\* turbulence-intensity axis differ by at most that axis' rate limit times
\* the step between the samples; the bound of an earlier axis survives the
\* later axes' passes.
C2_RateLimitBound == RateLimitReturned => AllBounds(ret.table, args)

\* a returned table in which the wind-direction pass had to clip (the input
\* broke the wind-direction bound) and the later passes changed offsets too
C2_Witness ==
    /\ pc = "done"
    /\ RateLimitReturned
    /\ ~ WdBound(df_opt, args.wd_rate_limit)
    /\ ~ WsBound(df_opt, args.ws_rate_limit)
    /\ Cardinality(TiSet(df_opt)) = 2
    /\ ~ TiBound(df_opt, args.ti_rate_limit)

SameOffsets(t1, t2) ==
    /\ DOMAIN t1 = DOMAIN t2
    /\ \A r \in DOMAIN t1 : t1[r].yaw = t2[r].yaw

\* C3: apply_static_rate_limits applied with the same limits to its own
\* output returns the same offsets in every row, and a table that already
\* satisfies the three bounds is returned with its offsets unchanged.
C3_RateLimitIdempotent ==
    /\ (pc = "again" /\ args.fn = "apply_static_rate_limits") =>
            /\ ret.status = "ok"
            /\ SameOffsets(ret.table, df_opt)
    /\ (RateLimitReturned /\ AllBounds(df_opt, args)) =>
            SameOffsets(ret.table, df_opt)

\* the second call returned, after a first call that changed the table
C3_Witness ==
    /\ pc = "again"
    /\ args.fn = "apply_static_rate_limits"
    /\ ret.status = "ok"
    /\ Cardinality(WdSet(df_opt)) = 3
    /\ \E r \in DOMAIN df_opt : df_opt[r].yaw[1] % OffsetScale # 0

----------------------------------------------------------------------------
(* Wind speed ramps *)

RampReturned ==
    /\ pc = "done"
    /\ args.fn = "apply_wind_speed_ramps"
    /\ ret.status = "ok"

IsZero(f) == f.den # 0 /\ f.num = 0
IsValue(f, v) == f.den # 0 /\ f.num = v * f.den

\* the source row with the wind direction and turbulence intensity of row o
SourceRow(o) ==
    CHOOSE r \in DOMAIN df_opt : df_opt[r].wd = o.wd /\ df_opt[r].ti = o.ti

ZeroOutsideCutInCutOut(o) ==
    (\/ o.ws <= args.ws_wake_steering_cut_in
     \/ o.ws >= args.ws_wake_steering_cut_out) =>
        \A t \in DOMAIN o.yaw : IsZero(o.yaw[t])

SourceInsideFullyEngaged(o) ==
    (/\ o.ws > args.ws_wake_steering_fully_engaged_low
     /\ o.ws < args.ws_wake_steering_fully_engaged_high) =>
        \A t \in DOMAIN o.yaw : IsValue(o.yaw[t], df_opt[SourceRow(o)].yaw[t])

\* C4: every row apply_wind_speed_ramps returns whose wind speed is at or
\* below cut-in or at or above cut-out has offset exactly zero for all
\* turbines, and every row whose wind speed is strictly between
\* fully-engaged-low and fully-engaged-high has the source offsets of its
\* wind direction and turbulence intensity, for every ws_min, ws_max and
\* breakpoints the function accepts (equal adjacent breakpoints included).
C4_RampBoundary ==
    RampReturned =>
        \A q \in DOMAIN ret.table :
            /\ ZeroOutsideCutInCutOut(ret.table[q])
            /\ SourceInsideFullyEngaged(ret.table[q])

\* C5: the table apply_wind_speed_ramps returns for a valid single-wind-speed
\* table is a valid OffsetTable (each combination once, wind direction
\* slowest, wind speed next, turbulence intensity fastest), so that the
\* ordering check of the next stages accepts it.
C5_RampOutputOrdered ==
    RampReturned =>
        /\ IsRowMajorProduct(ret.table)
        /\ check_df_opt_ordering(ret.table).status = "ok"

RampMisconfigured ==
    \/ ~ (/\ args.ws_wake_steering_cut_in <= args.ws_wake_steering_fully_engaged_low
          /\ args.ws_wake_steering_fully_engaged_low
                <= args.ws_wake_steering_fully_engaged_high
          /\ args.ws_wake_steering_fully_engaged_high <= args.ws_wake_steering_cut_out)
    \/ Cardinality(WsSet(df_opt)) > 1
    \/ \E r \in DOMAIN df_opt :
          \/ df_opt[r].ws < args.ws_wake_steering_fully_engaged_low
          \/ df_opt[r].ws > args.ws_wake_steering_fully_engaged_high

\* C6: apply_wind_speed_ramps raises an error and returns no table whenever
\* the breakpoints are not in the order cut-in <= fully-engaged-low <=
\* fully-engaged-high <= cut-out, whenever the source table has more than
\* one wind speed, and whenever its single wind speed lies outside
\* [fully-engaged-low, fully-engaged-high]; nothing has been interpolated
\* when the error is raised.
C6_RampPreconditions ==
    (pc = "done" /\ args.fn = "apply_wind_speed_ramps" /\ RampMisconfigured) =>
        /\ ret.status = "error"
        /\ ret.error = "ValueError"
        /\ ret.interpolated = 0
        /\ "table" \notin DOMAIN ret

\* breakpoints in order up to fully-engaged-high, which lies above cut-out
C6_Witness ==
    /\ pc = "done"
    /\ args.fn = "apply_wind_speed_ramps"
    /\ ret.status = "error"
    /\ Cardinality(WsSet(df_opt)) = 1
    /\ args.ws_wake_steering_cut_in <= args.ws_wake_steering_fully_engaged_low
    /\ args.ws_wake_steering_fully_engaged_low <= df_opt[1].ws
    /\ df_opt[1].ws <= args.ws_wake_steering_fully_engaged_high
    /\ args.ws_wake_steering_fully_engaged_high > args.ws_wake_steering_cut_out

----------------------------------------------------------------------------
(* Hysteresis zones *)

HysteresisReturned ==
    /\ pc = "done"
    /\ args.fn = "compute_hysteresis_zones"
    /\ ret.status = "ok"

\* C7: every interval compute_hysteresis_zones emits is at least
\* min_region_width wide; an interval detected narrower is replaced by the
\* interval of width exactly min_region_width with the same midpoint, and an
\* interval that is wide enough is emitted as detected.  (Emitted bounds are
\* in half degrees, detected bounds and min_region_width in degrees.)
C7_HysteresisWidth ==
    HysteresisReturned =>
        \A t \in DOMAIN ret.hysteresis_dict :
            /\ DOMAIN ret.hysteresis_dict[t] = DOMAIN ret.detected[t]
            /\ \A s \in DOMAIN ret.hysteresis_dict[t] :
                LET z == ret.hysteresis_dict[t][s]
                    d == ret.detected[t][s]
                IN  /\ z.ub - z.lb >= 2 * args.min_region_width
                    /\ (d.ub - d.lb < args.min_region_width) =>
                            /\ z.ub - z.lb = 2 * args.min_region_width
                            /\ z.lb + z.ub = 2 * (d.lb + d.ub)
                    /\ (d.ub - d.lb >= args.min_region_width) =>
                            /\ z.lb = 2 * d.lb
                            /\ z.ub = 2 * d.ub

\* two regions of one turbine, detected 5 degrees wide, widened to 8 degrees
C7_Witness ==
    /\ HysteresisReturned
    /\ args.min_region_width = 8
    /\ \E t \in DOMAIN ret.detected :
        /\ Len(ret.detected[t]) = 2
        /\ \A s \in DOMAIN ret.detected[t] :
                ret.detected[t][s].ub - ret.detected[t][s].lb = 5

\* the table of end-to-end scenario 1, and a threshold that a change of 20
\* degrees over one step of 5 degrees meets
PulseScenario ==
    /\ pc = "done"
    /\ args.fn = "compute_hysteresis_zones"
    /\ df_opt \in {PulseTable(1), PulseTable(2)}
    /\ args.yaw_rate_threshold * 5 <= 20 * OffsetScale

\* the region z (half degrees) contains the direction wd (degrees)
Brackets(z, wd) == z.lb <= 2 * wd /\ 2 * wd <= z.ub

\* C8: for the full-circle table whose offset is 20 for the directions in
\* [260, 280] and 0 elsewhere, compute_hysteresis_zones returns for each
\* turbine two zones, one bracketing the switch at 260 degrees and one
\* bracketing the switch at 280 degrees.
C8_PulseTwoZones ==
    PulseScenario =>
        /\ ret.status = "ok"
        /\ DOMAIN ret.hysteresis_dict = {t - 1 : t \in DOMAIN df_opt[1].yaw}
        /\ \A t \in DOMAIN ret.hysteresis_dict :
            /\ Len(ret.hysteresis_dict[t]) = 2
            /\ \E s \in DOMAIN ret.hysteresis_dict[t] :
                    Brackets(ret.hysteresis_dict[t][s], 260)
            /\ \E s \in DOMAIN ret.hysteresis_dict[t] :
                    Brackets(ret.hysteresis_dict[t][s], 280)

\* C8 as amended: for that table compute_hysteresis_zones returns for each
\* turbine exactly one zone; it is detected as (255, 260), it brackets the
\* rise of the offset at 260 degrees, and no zone brackets the drop of the
\* offset at 280 degrees.
C8_PulseOneZone ==
    PulseScenario =>
        /\ ret.status = "ok"
        /\ DOMAIN ret.hysteresis_dict = {t - 1 : t \in DOMAIN df_opt[1].yaw}
        /\ \A t \in DOMAIN ret.hysteresis_dict :
            /\ Len(ret.hysteresis_dict[t]) = 1
            /\ ret.detected[t][1] = [lb |-> 255, ub |-> 260]
            /\ Brackets(ret.hysteresis_dict[t][1], 260)
            /\ (args.min_region_width <= 8) =>
                    ~ Brackets(ret.hysteresis_dict[t][1], 280)

\* the scenario with two turbines and the zone as detected
C8_Witness ==
    /\ PulseScenario
    /\ ret.status = "ok"
    /\ Len(df_opt[1].yaw) = 2
    /\ args.min_region_width = 2
    /\ ret.hysteresis_dict[0] = <<[lb |-> 510, ub |-> 520]>>

----------------------------------------------------------------------------
(* The interpolant's bounds and its wrap of the direction axis *)

\* the call of the returned function has come back
InterpolantQueried == pc = "queried"

\* the closed ranges of the three axes, read from the table: the directions
\* from the lowest sampled one to the highest (360 when 0 is sampled), the
\* wind speeds and turbulence intensities between the sentinels
LowestDirection == Min(WdSet(df_opt))
HighestDirection == IF 0 \in WdSet(df_opt) THEN 360 ELSE Max(WdSet(df_opt))

\* the turbulence intensities the query is evaluated at
QueriedTis ==
    IF args.ti_array = None
    THEN [p \in DOMAIN args.wd_array |-> wake_steering_interpolant.ti_ref]
    ELSE args.ti_array.value

WdOutside(p) ==
    args.wd_array[p] < LowestDirection \/ args.wd_array[p] > HighestDirection
WsOutside(p) ==
    args.ws_array[p] < WsLowerSentinel \/ args.ws_array[p] > WsUpperSentinel
TiOutside(p) ==
    QueriedTis[p] < TiLowerSentinel \/ QueriedTis[p] > TiUpperSentinel

QueryInside ==
    \A p \in DOMAIN args.wd_array : ~ WdOutside(p) /\ ~ WsOutside(p) /\ ~ TiOutside(p)

\* one row of offsets per query point, one (finite) offset per turbine
ReturnsOffsets ==
    /\ ret.status = "ok"
    /\ DOMAIN ret.values = DOMAIN args.wd_array
    /\ \A p \in DOMAIN ret.values :
        /\ DOMAIN ret.values[p] = 1..wake_steering_interpolant.n_turbines
        /\ \A t \in DOMAIN ret.values[p] : ret.values[p][t].den # 0

\* the error states, for the axis a point violates, the axis with its bounds
\* and the offending value
NamesAxis(axis, value) ==
    /\ axis \in DOMAIN ret.bounds
    /\ axis \in DOMAIN ret.queried
    /\ \E p \in DOMAIN ret.queried[axis] : ret.queried[axis][p] = value

RaisesBoundsError ==
    /\ ret.status = "error"
    /\ ret.error = "ValueError"
    /\ "values" \notin DOMAIN ret
    /\ \A p \in DOMAIN args.wd_array :
        /\ WdOutside(p) => NamesAxis("wind_direction", args.wd_array[p])
        /\ WsOutside(p) => NamesAxis("wind_speed", args.ws_array[p])
        /\ TiOutside(p) => NamesAxis("turbulence_intensity", QueriedTis[p])

\* C9: a query all of whose points lie in the closed ranges of the three
\* axes (the sentinel bounds -1 and 999 and the lowest and highest direction
\* included) returns offsets; a query with at least one point outside the
\* range of an axis raises a ValueError, returns no offsets, and the error
\* states the violated axis, its bounds and the queried values.
C9_InterpolantBounds ==
    InterpolantQueried =>
        /\ QueryInside => ReturnsOffsets
        /\ ~ QueryInside => RaisesBoundsError

\* a two-point query: one point on the sentinels and on the highest
\* direction was answered in an earlier behaviour; here one point on a
\* sentinel of each axis and on the lowest direction is answered
C9_Witness ==
    /\ InterpolantQueried
    /\ ret.status = "ok"
    /\ Len(args.wd_array) = 2
    /\ args.ti_array # None
    /\ args.wd_array[1] = HighestDirection
    /\ args.ws_array[1] = WsUpperSentinel
    /\ QueriedTis[1] = TiLowerSentinel
    /\ args.wd_array[2] = LowestDirection
    /\ \E t \in DOMAIN ret.values[1] : ret.values[1][t].num # 0

\* the direction axis of the interpolant ends with the appended 360
Wrapped ==
    LET grid == wake_steering_interpolant.wind_directions
    IN  /\ grid[Len(grid)] = 360
        /\ Len(grid) = Cardinality(WdSet(df_opt)) + 1

\* two points of the query that differ in the direction only, one at 0 and
\* one at 360
SamePointAcrossWrap(p, q) ==
    /\ args.wd_array[p] = 0
    /\ args.wd_array[q] = 360
    /\ args.ws_array[p] = args.ws_array[q]
    /\ QueriedTis[p] = QueriedTis[q]

\* C10: the interpolant is built without error from every table, and its
\* direction axis is wrapped exactly when the lowest sampled direction is 0.
\* When wrapped, a query with directions in [0, 360] (wind speed and
\* turbulence intensity in range) is answered and the offsets at 360 equal
\* the offsets at 0 for the same wind speed and turbulence intensity. When
\* not wrapped, a query above the highest or below the lowest sampled
\* direction raises the bounds error.
C10_WrapAtZero ==
    pc \in {"built", "queried"} =>
        /\ wake_steering_interpolant.status = "ok"
        /\ Wrapped <=> (Min(WdSet(df_opt)) = 0)
        /\ InterpolantQueried /\ Min(WdSet(df_opt)) = 0 =>
            /\ (\A p \in DOMAIN args.wd_array :
                    /\ args.wd_array[p] \in 0..360
                    /\ ~ WsOutside(p) /\ ~ TiOutside(p))
                => ret.status = "ok"
            /\ ret.status = "ok" =>
                \A p, q \in DOMAIN args.wd_array :
                    SamePointAcrossWrap(p, q) => ret.values[p] = ret.values[q]
        /\ InterpolantQueried /\ Min(WdSet(df_opt)) # 0 =>
            ((\E p \in DOMAIN args.wd_array :
                \/ args.wd_array[p] > Max(WdSet(df_opt))
                \/ args.wd_array[p] < Min(WdSet(df_opt)))
             => ret.status = "error" /\ ret.error = "ValueError")

\* a wrapped table whose offsets differ between the first and the last
\* direction, queried at 360 and at 0 with a wind speed between samples
C10_Witness ==
    /\ InterpolantQueried
    /\ Wrapped
    /\ ret.status = "ok"
    /\ Len(args.wd_array) = 2
    /\ SamePointAcrossWrap(2, 1)
    /\ args.ws_array[1] = 500
    /\ df_opt[1].wd # df_opt[Len(df_opt)].wd
    /\ df_opt[1].yaw # df_opt[Len(df_opt)].yaw
    /\ \E t \in DOMAIN ret.values[1] : ret.values[1][t].num # 0
    /\ ret.values[1] = ret.values[2]

----------------------------------------------------------------------------
(* Edge-hold of the interpolant on the wind speed and turbulence axes *)

\* the offsets the returned function gives for the single point (wd, ws, ti)
OffsetsAt(wd, ws, ti) ==
    yaw_angle_interpolant(wake_steering_interpolant,
                          <<wd>>, <<ws>>, Given(<<ti>>)).values[1]

\* x held to the sampled range of an axis
HeldTo(x, sampled) == Max({Min({x, Max(sampled)}), Min(sampled)})

\* C11: in an answered query, a point whose wind speed lies between a
\* sentinel and the nearest sampled wind speed gets the offsets of that
\* sampled wind speed at the same direction and turbulence intensity; a
\* point whose turbulence intensity lies between a sentinel and the nearest
\* sampled turbulence intensity gets the offsets of that sampled turbulence
\* intensity at the same direction and wind speed; and a point that is a
\* row of the table gets that row's offsets.
C11_EdgeHold ==
    (InterpolantQueried /\ ret.status = "ok") =>
        \A p \in DOMAIN args.wd_array :
            LET wd == args.wd_array[p]
                ws == args.ws_array[p]
                ti == QueriedTis[p]
            IN  /\ ret.values[p] = OffsetsAt(wd, HeldTo(ws, WsSet(df_opt)), ti)
                /\ ret.values[p] = OffsetsAt(wd, ws, HeldTo(ti, TiSet(df_opt)))
                /\ \A r \in DOMAIN df_opt :
                    (df_opt[r].wd = wd /\ df_opt[r].ws = ws /\ df_opt[r].ti = ti)
                    => ret.values[p] =
                        [t \in DOMAIN df_opt[r].yaw |->
                            [num |-> df_opt[r].yaw[t], den |-> 1]]

\* a table whose offsets differ between its two wind speeds, queried below
\* the lowest sampled wind speed and above the sampled turbulence
\* intensities, at a direction between two samples
C11_Witness ==
    /\ InterpolantQueried
    /\ ret.status = "ok"
    /\ Cardinality(WsSet(df_opt)) = 2
    /\ Cardinality(WdSet(df_opt)) = 2
    /\ df_opt[1].yaw # df_opt[2].yaw
    /\ args.wd_array[1] \notin WdSet(df_opt)
    /\ args.ws_array[1] > WsLowerSentinel
    /\ args.ws_array[1] < Min(WsSet(df_opt))
    /\ QueriedTis[1] > Max(TiSet(df_opt))
    /\ QueriedTis[1] < TiUpperSentinel
    /\ \E t \in DOMAIN ret.values[1] : ret.values[1][t].num # 0

----------------------------------------------------------------------------
(* The controller's steps *)

\* this step is a control step of a constructed controller
ControlStep == pc = "ready" /\ pc' = "ready"

\* the measurement the step received
Measured == measurements_dict'.wind_directions

\* the wind directions the step used: the measurement when it is non-empty,
\* else the reading stored before the step
DirectionsUsed ==
    IF Measured = None \/ Measured.value = <<>> THEN wd_store ELSE Measured.value

\* C12: every step of a controller without offset table returns and leaves
\* in controls_dict a yaw angle equal to the wind direction used, turbine by
\* turbine (zero offset).
C12_PassThroughWithoutTable ==
    [][(ControlStep /\ wake_steering_interpolant = None) =>
        /\ ret' = Returned
        /\ DOMAIN controls_dict'.yaw_angles = 1..n_turbines
        /\ \A t \in 1..n_turbines :
            controls_dict'.yaw_angles[t] = [num |-> DirectionsUsed[t], den |-> 1]
      ]_vars

\* a controller without table has been stepped with the measurement
\* [271, 272] and holds the setpoints [271, 272]
C12_Witness ==
    /\ pc = "ready"
    /\ wake_steering_interpolant = None
    /\ measurements_dict # None
    /\ measurements_dict.wind_directions = Given(<<271, 272>>)
    /\ controls_dict.yaw_angles = << [num |-> 271, den |-> 1], [num |-> 272, den |-> 1] >>

\* the step received an empty or absent measurement
BadMeasurement == Measured = None \/ Measured.value = <<>>

\* C13: in every state of a constructed controller, a step whose
\* measurement is empty or absent does not raise, leaves the stored reading
\* unchanged and issues a setpoint for every turbine computed from the
\* stored reading.
C13_EmptyMeasurementNeverRaises ==
    [][(ControlStep /\ BadMeasurement) =>
        /\ ret'.status # "error"
        /\ wd_store' = wd_store
        /\ controls_dict'.yaw_angles =
            yaw_setpoint(wake_steering_interpolant, wd_store,
                         [t \in 1..n_turbines |-> PlaceholderWindSpeed]).yaw_setpoint
      ]_vars

\* C14: the constructor raises ValueError, and sets no field of a
\* controller, exactly when hysteresis zones are given without an offset
\* table; with neither, with a table only, and with a table and zones it
\* returns a controller holding the zones it was given and an interpolant
\* exactly when it was given a table.
C14_HysteresisNeedsTable ==
    [][(pc = "new" /\ pc' # "new") =>
        IF df_opt = None /\ args.hysteresis_dict # None
        THEN /\ pc' = "failed"
             /\ ret'.status = "error" /\ ret'.error = "ValueError"
             /\ NoController' /\ wake_steering_interpolant' = None
        ELSE /\ pc' = "ready"
             /\ ret' = Returned
             /\ hysteresis_dict' = args.hysteresis_dict
             /\ (wake_steering_interpolant' = None) <=> (df_opt = None)
             /\ n_turbines' = args.num_turbines
      ]_vars

\* the constructor has refused hysteresis zones that came without a table
C14_Witness ==
    /\ pc = "failed"
    /\ df_opt = None
    /\ args.hysteresis_dict # None
    /\ ret.status = "error"
    /\ NoController

\* the interpolant's offsets, in 1/OffsetScale degree, for the directions
\* used, at the placeholder wind speed and the median sampled turbulence
\* intensity; turbine t's offset is evaluated at turbine t's direction
TableOffset(t) ==
    evaluate_linear(wake_steering_interpolant, DirectionsUsed[t],
                    PlaceholderWindSpeed,
                    np_median(np_unique(Column(df_opt.value, "turbulence_intensity"))),
                    t)

\* the directions used lie in the direction range of the interpolant
DirectionsInRange ==
    \A t \in 1..n_turbines :
        /\ DirectionsUsed[t] >= wake_steering_interpolant.wd_min
        /\ DirectionsUsed[t] <= wake_steering_interpolant.wd_max

\* x degrees minus off/OffsetScale degrees is the fraction y
IsDifference(y, x, off) ==
    /\ y.den # 0 /\ off.den # 0
    /\ y.num * off.den * OffsetScale
        = (x * OffsetScale * off.den - off.num) * y.den

\* C15: a step of a controller constructed with a table and without
\* hysteresis zones, whose directions lie in the table's direction range,
\* returns and leaves in controls_dict, for every turbine, the direction
\* used minus the turbine's offset interpolated at (that direction, wind
\* speed 8, median sampled turbulence intensity); with a direction outside
\* the range the step raises the bounds error.
C15_SetpointIsDirectionMinusOffset ==
    [][(ControlStep /\ wake_steering_interpolant # None /\ hysteresis_dict = None) =>
        IF DirectionsInRange
        THEN /\ ret' = Returned
             /\ DOMAIN controls_dict'.yaw_angles = 1..n_turbines
             /\ \A t \in 1..n_turbines :
                    IsDifference(controls_dict'.yaw_angles[t],
                                 DirectionsUsed[t], TableOffset(t))
        ELSE ret'.status = "error" /\ ret'.error = "ValueError"
      ]_vars

\* two turbines measured at 262 and 268 degrees between the samples of a
\* table with different offsets for the two, the setpoints neither equal to
\* the directions nor to each other's
C15_Witness ==
    /\ pc = "ready"
    /\ wake_steering_interpolant # None
    /\ hysteresis_dict = None
    /\ measurements_dict # None
    /\ measurements_dict.wind_directions = Given(<<262, 268>>)
    /\ ret = Returned
    /\ controls_dict.yaw_angles[1] # [num |-> 262, den |-> 1]
    /\ controls_dict.yaw_angles[2] # [num |-> 268, den |-> 1]
    /\ controls_dict.yaw_angles[1].den # 1

\* turbine t's direction of this step lies in one of its hysteresis zones
\* (the zones are in half degrees, keyed by the turbine's index from 0)
InHysteresisZone(t) ==
    \E z \in DOMAIN hysteresis_dict.value[t - 1] :
        /\ hysteresis_dict.value[t - 1][z][1] <= 2 * DirectionsUsed[t]
        /\ 2 * DirectionsUsed[t] <= hysteresis_dict.value[t - 1][z][2]

\* the table offset of turbine t at this step's direction has the opposite
\* sign of the one at the previous step's direction
OffsetFlipped(t) ==
    LET previous ==
            evaluate_linear(wake_steering_interpolant, wd_store[t],
                            PlaceholderWindSpeed,
                            wake_steering_interpolant.ti_ref, t)
    IN  /\ wd_store[t] >= wake_steering_interpolant.wd_min
        /\ wd_store[t] <= wake_steering_interpolant.wd_max
        /\ previous.num * TableOffset(t).num < 0

\* C16: a step of a controller constructed with a table and hysteresis
\* zones (directions in the table's range) returns and issues, for a turbine
\* whose direction lies in one of its zones while the table offset has
\* flipped sign since the previous step, the previous setpoint, and for
\* every other turbine the table-based setpoint.
C16_HysteresisHoldsSetpoint ==
    [][(ControlStep /\ hysteresis_dict # None /\ DirectionsInRange) =>
        /\ ret' = Returned
        /\ \A t \in 1..n_turbines :
            IF InHysteresisZone(t) /\ OffsetFlipped(t)
            THEN controls_dict'.yaw_angles[t] = controls_dict.yaw_angles[t]
            ELSE IsDifference(controls_dict'.yaw_angles[t],
                              DirectionsUsed[t], TableOffset(t))
      ]_vars

\* C19: the constructor stores 270 for every turbine; a step with a
\* non-empty measurement stores that measurement, a step with an empty or
\* absent measurement leaves the stored reading as it is, whether or not the
\* step raises afterwards. So the stored reading is always the most recent
\* non-empty measurement, or 270 for every turbine if there was none.
C19_StoredReadingIsLastValid ==
    [][/\ (pc = "new" /\ pc' = "ready") =>
            wd_store' = [t \in 1..args.num_turbines |-> StartupWindDirection]
       /\ ControlStep =>
            IF BadMeasurement THEN wd_store' = wd_store
            ELSE wd_store' = Measured.value
      ]_vars

\* a controller that stored [271, 272] at an earlier step has now received
\* an empty list and still stores [271, 272]
C19_Witness ==
    /\ pc = "ready"
    /\ measurements_dict # None
    /\ measurements_dict.wind_directions = Given(<<>>)
    /\ wd_store = <<271, 272>>

----------------------------------------------------------------------------
(* The ordering check at the start of the stages *)

\* what the stage called in this behaviour returned or raised
StageOutcome ==
    IF args.fn = "get_yaw_angles_interpolant" THEN wake_steering_interpolant ELSE ret

\* C17: whichever of the four stages is called with a table that lacks a
\* combination or is not in row-major order, of any number of directions
\* and wind speeds, the call raises the ValueError of check_df_opt_ordering
\* and returns nothing.
C17_OrderingCheckedFirst ==
    (pc \in {"done", "built"} /\ ~ IsRowMajorProduct(df_opt)) =>
        /\ StageOutcome.status = "error"
        /\ StageOutcome.error = "ValueError"
        /\ StageOutcome.msg = check_df_opt_ordering(df_opt).msg

----------------------------------------------------------------------------
(* The interfaces' check of the controls *)

\* this step is a call of check_controls
CheckControlsStep == pc = "ready" /\ args'.fn = "check_controls"

\* the dictionary checked holds a key that is no available control
HasUnavailableKey ==
    \E i \in DOMAIN args'.controls_dict :
        args'.controls_dict[i][1] \notin {"yaw_angles", "power_setpoints"}

\* the dictionary checked holds a control without one value per turbine
HasWrongLength ==
    \E i \in DOMAIN args'.controls_dict :
        Len(args'.controls_dict[i][2]) # interface.n_turbines

RaisesValueError == ret'.status = "error" /\ ret'.error = "ValueError"

\* C18 as claimed: check_controls raises ValueError when a key of the
\* dictionary is no available control, returns without error when every key
\* is one, and changes no field of the interface.
C18_UnavailableKeyRaises ==
    [][CheckControlsStep =>
        /\ HasUnavailableKey => RaisesValueError
        /\ ~ HasUnavailableKey => ret' = Returned
        /\ interface' = interface
      ]_vars

\* C18 as amended: check_controls raises ValueError when a key of the
\* dictionary is no available control, wherever the key stands in the
\* dictionary; when every key is available it returns without error, except
\* that HerculesADInterface raises ValueError for a control that does not
\* hold one value per turbine; it changes no field of the interface.
C18_UnavailableKeyOrLengthRaises ==
    [][CheckControlsStep =>
        /\ HasUnavailableKey => RaisesValueError
        /\ ~ HasUnavailableKey =>
            IF interface.class = "HerculesADInterface" /\ HasWrongLength
            THEN RaisesValueError
            ELSE ret' = Returned
        /\ interface' = interface
      ]_vars

\* the ROSCO interface, after setpoints were sent through it, has refused a
\* dictionary whose unavailable key comes after two available ones
C18_Witness ==
    /\ interface # None
    /\ interface.class = "ROSCO_ZMQInterface"
    /\ "power_setpoint_001" \in DOMAIN interface.rosco_setpoints
    /\ args.fn = "check_controls"
    /\ Len(args.controls_dict) = 3
    /\ args.controls_dict[1][1] = "yaw_angles"
    /\ args.controls_dict[2][1] = "power_setpoints"
    /\ args.controls_dict[3][1] = "unavailable_control"
    /\ ret.status = "error"
    /\ ret.error = "ValueError"

----------------------------------------------------------------------------
(* The intervals of compute_hysteresis_zones, read from the table *)

\* the directions of the axis in ascending order, with the first one again,
\* one step after the last one, when the axis covers the circle
HystAxis ==
    LET sampled == SortedSeq(WdSet(df_opt))
        step == sampled[2] - sampled[1]
        last == sampled[Len(sampled)]
    IN  IF sampled[1] - step < 0 /\ last + step >= 360
        THEN Append(sampled, last + step)
        ELSE sampled

\* the rows of the table at the i-th direction of the axis
RowsAtDirection(axis, i) ==
    LET d == IF i = Len(axis) /\ Cardinality(WdSet(df_opt)) < Len(axis)
             THEN axis[1] ELSE axis[i]
    IN  {r \in DOMAIN df_opt : df_opt[r].wd = d}

\* C20: called with an ordered table of two or more directions,
\* compute_hysteresis_zones returns, also when a switching point has no
\* direction with an offset below 0.1 below it or none with an offset above
\* -0.1 above it; it emits for every turbine as many intervals as the
\* turbine has switching points (adjacent directions between which, at some
\* wind speed and turbulence intensity, the offset rises by at least
\* yaw_rate_threshold times the step), and the interval of a switching
\* point, before widening, runs from the highest direction below it with an
\* offset below 0.1 to the lowest direction above it with an offset above
\* -0.1.
C20_OneIntervalPerSwitchingPoint ==
    (pc = "done" /\ args.fn = "compute_hysteresis_zones"
        /\ Cardinality(WdSet(df_opt)) >= 2) =>
        /\ ret.status = "ok"
        /\ LET axis == HystAxis
               step == axis[2] - axis[1]
               rows == [i \in DOMAIN axis |-> RowsAtDirection(axis, i)]
           IN  \A t \in 1..NumTurbines(df_opt) :
                LET switches ==
                        {i \in 1..(Len(axis) - 1) :
                            \E r1 \in rows[i], r2 \in rows[i + 1] :
                                /\ df_opt[r1].ws = df_opt[r2].ws
                                /\ df_opt[r1].ti = df_opt[r2].ti
                                /\ df_opt[r2].yaw[t] - df_opt[r1].yaw[t]
                                    >= args.yaw_rate_threshold * step}
                    below == {i \in DOMAIN axis :
                                \E r \in rows[i] : 10 * df_opt[r].yaw[t] < OffsetScale}
                    above == {i \in DOMAIN axis :
                                \E r \in rows[i] : 10 * df_opt[r].yaw[t] > -OffsetScale}
                    points == SortedSeq(switches)
                IN  IF switches = {} THEN (t - 1) \notin DOMAIN ret.hysteresis_dict
                    ELSE /\ (t - 1) \in DOMAIN ret.hysteresis_dict
                         /\ Len(ret.hysteresis_dict[t - 1]) = Len(points)
                         /\ \A s \in DOMAIN points :
                            LET lower == {i \in below : i <= points[s]}
                                upper == {i \in above : i > points[s]}
                            IN  /\ lower # {} =>
                                    ret.detected[t - 1][s].lb = axis[Max(lower)]
                                /\ upper # {} =>
                                    ret.detected[t - 1][s].ub = axis[Min(upper)]

----------------------------------------------------------------------------
(* The setpoints the server's callback hands to the turbines *)

\* a step in which the server called back
CallbackStep ==
    pc = "ready" /\ args'.fn = "rosco_wfc_zmq_server_wfc_controller"

\* the yaw angle of a turbine in the last send_controls call: 0 when there
\* was no call yet or the call gave no yaw angles
LastYawAngleSent(id) ==
    IF last_sent = None THEN 0
    ELSE IF last_sent.yaw_angles = None THEN 0
    ELSE last_sent.yaw_angles.value[id]

\* C21: however send_controls calls and callbacks interleave on one
\* ROSCO_ZMQInterface, a callback for one of its turbines whose id is the
\* ZMQ_ID of its measurements returns as ZMQ_YawOffset the yaw angle of
\* that turbine in the most recent send_controls call (0 when there was
\* none, or when it gave no yaw angles) and 0 for the three pitch offsets;
\* a callback whose id differs from the ZMQ_ID raises an error and leaves
\* rosco_measurements as it was.
C21_CallbackReturnsLastSent ==
    [][CallbackStep =>
        IF args'.id # args'.measurements["ZMQ_ID"]
        THEN /\ ret'.status = "error"
             /\ interface'.rosco_measurements = interface.rosco_measurements
        ELSE args'.id \in 1..interface.n_turbines =>
                ret' = [status |-> "ok",
                        setpoints |->
                            [ZMQ_YawOffset |-> LastYawAngleSent(args'.id),
                             ZMQ_PitOffset1 |-> 0,
                             ZMQ_PitOffset2 |-> 0,
                             ZMQ_PitOffset3 |-> 0]]]_vars

\* the second turbine was handed the yaw angle sent for it, after an
\* earlier callback had stored measurements
C21_Witness ==
    /\ args.fn = "rosco_wfc_zmq_server_wfc_controller"
    /\ args.id = 2
    /\ ret.status = "ok"
    /\ last_sent # None
    /\ last_sent.yaw_angles # None
    /\ ret.setpoints.ZMQ_YawOffset = 268
    /\ "status_001" \in DOMAIN interface.rosco_measurements

----------------------------------------------------------------------------
(* The directions create_uniform_wind_rose samples *)

WindRoseReturned ==
    pc = "done" /\ args.fn = "create_uniform_wind_rose" /\ ret.status = "ok"

\* the directions wd_min, wd_min + r, ... that do not exceed a bound
StepsUpTo(wd_min, bound, wd_resolution) ==
    {wd_min + k * wd_resolution :
        k \in 0..(IF bound >= wd_min THEN (bound - wd_min) \div wd_resolution
                  ELSE -1)}

SampledDirections ==
    {ret.wind_rose.wind_directions[i] : i \in DOMAIN ret.wind_rose.wind_directions}

\* C22: when the full circle is requested (wd_min = 0, wd_max = 360),
\* create_uniform_wind_rose samples exactly the directions 0, r, 2r, ...
\* that are at most 360 - r: they are ascending and unique, 360 is not
\* among them, and no two of them are the same direction modulo 360; for
\* every other requested range the directions are wd_min, wd_min + r, ...
\* up to the unreduced wd_max.
C22_FullCircleSampledOnce ==
    WindRoseReturned =>
        LET wds == ret.wind_rose.wind_directions
        IN  IF args.wd_min = 0 /\ args.wd_max = FullCircle
            THEN /\ SampledDirections =
                        StepsUpTo(0, FullCircle - args.wd_resolution,
                                  args.wd_resolution)
                 /\ \A i, j \in DOMAIN wds : i < j => wds[i] < wds[j]
                 /\ FullCircle \notin SampledDirections
                 /\ \A i, j \in DOMAIN wds :
                        i # j => wds[i] % FullCircle # wds[j] % FullCircle
            ELSE /\ SampledDirections =
                        StepsUpTo(args.wd_min, args.wd_max, args.wd_resolution)
                 /\ \A i, j \in DOMAIN wds : i < j => wds[i] < wds[j]

\* the full circle was sampled at 5 degrees: 72 directions, the last 355
C22_Witness ==
    /\ WindRoseReturned
    /\ args.wd_min = 0 /\ args.wd_max = FullCircle
    /\ args.wd_resolution = 5000
    /\ Len(ret.wind_rose.wind_directions) = 72
    /\ ret.wind_rose.wind_directions[72] = 355000

----------------------------------------------------------------------------
(* The wind speeds of the table apply_wind_speed_ramps returns *)

\* C23: the table apply_wind_speed_ramps returns spans the closed range
\* [ws_min, ws_max] at the target resolution: its wind speeds are ws_min,
\* ws_min + ws_resolution, ... up to ws_max, ws_max included when it is a
\* whole number of steps above ws_min, and for each of these wind speeds
\* it has exactly one row for every row (wind direction, turbulence
\* intensity) of the source table.
C23_RampSpansClosedRange ==
    RampReturned =>
        /\ WsSet(ret.table) =
                StepsUpTo(args.ws_min, args.ws_max, args.ws_resolution)
        /\ \A ws \in WsSet(ret.table) : \A r \in DOMAIN df_opt :
                Cardinality({q \in DOMAIN ret.table :
                                /\ ret.table[q].ws = ws
                                /\ ret.table[q].wd = df_opt[r].wd
                                /\ ret.table[q].ti = df_opt[r].ti}) = 1

----------------------------------------------------------------------------
(* The rate bound across the wrap of the wind direction *)

\* the directions of a table are 0, r, ..., 360 - r for their step r
CoversFullCircle(tbl) ==
    LET wds == SortedSeq(WdSet(tbl))
    IN  /\ Len(wds) >= 2
        /\ wds[1] = 0
        /\ \A i \in 1..(Len(wds) - 1) : wds[i + 1] - wds[i] = wds[2] - wds[1]
        /\ wds[Len(wds)] + (wds[2] - wds[1]) = 360

\* C24: in the table apply_static_rate_limits returns for a table that
\* covers the full circle (directions 0, r, ..., 360 - r), for every
\* turbine, wind speed and turbulence intensity the offsets at direction 0
\* and at direction 360 - r differ by at most wd_rate_limit times r.
C24_RateLimitAcrossWrap ==
    (RateLimitReturned /\ pc = "done" /\ CoversFullCircle(df_opt)) =>
        LET wds == SortedSeq(WdSet(ret.table))
            r == wds[2] - wds[1]
        IN  \A p, q \in DOMAIN ret.table :
                (/\ ret.table[p].wd = 0
                 /\ ret.table[q].wd = 360 - r
                 /\ ret.table[p].ws = ret.table[q].ws
                 /\ ret.table[p].ti = ret.table[q].ti) =>
                    \A t \in DOMAIN ret.table[p].yaw :
                        /\ ret.table[p].yaw[t] - ret.table[q].yaw[t]
                                <= args.wd_rate_limit * r
                        /\ ret.table[q].yaw[t] - ret.table[p].yaw[t]
                                <= args.wd_rate_limit * r

----------------------------------------------------------------------------
(* The range of the rate-limited offsets *)

\* a step in which apply_static_rate_limits ran
RateLimitStep ==
    /\ args.fn = "apply_static_rate_limits"
    /\ \/ pc = "call" /\ pc' = "done"
       \/ pc = "done" /\ pc' = "again"

\* the table handed to the call of the step
RateLimitInput == IF pc = "call" THEN df_opt ELSE ret.table

OffsetsOf(tbl, t) == {tbl[r].yaw[t] : r \in DOMAIN tbl}

\* C25: every offset of a turbine in the table apply_static_rate_limits
\* returns lies between the minimum and the maximum of that turbine's
\* offsets in the table it was handed, and the table it was handed has the
\* same offsets after the call as before.
C25_RateLimitStaysInRange ==
    [][RateLimitStep =>
        /\ df_opt' = RateLimitInput
        /\ ret'.status = "ok" =>
            \A q \in DOMAIN ret'.table : \A t \in DOMAIN ret'.table[q].yaw :
                /\ ret'.table[q].yaw[t] >= Min(OffsetsOf(RateLimitInput, t))
                /\ ret'.table[q].yaw[t] <= Max(OffsetsOf(RateLimitInput, t))]_vars

\* the call changed offsets of a table that broke the wind-direction bound
C25_Witness ==
    /\ pc = "done"
    /\ RateLimitReturned
    /\ ~ WdBound(df_opt, args.wd_rate_limit)
    /\ \E r \in DOMAIN df_opt :
            /\ ret.table[r].yaw[1] # df_opt[r].yaw[1]
            /\ ret.table[r].yaw[1] > Min(OffsetsOf(df_opt, 1))
            /\ ret.table[r].yaw[1] < Max(OffsetsOf(df_opt, 1))

----------------------------------------------------------------------------
(* The controller's state after a step that failed *)

\* C26: a step of the controller that raises (the bounds error of the
\* interpolant, or the NotImplementedError of a controller with hysteresis
\* zones) leaves the controller's state as it was before the step: the
\* controls it issued and its stored wind directions are both unchanged.
C26_FailedStepKeepsState ==
    [][(ControlStep /\ ret'.status = "error") =>
        /\ controls_dict' = controls_dict
        /\ wd_store' = wd_store]_vars

----------------------------------------------------------------------------
(* Rate limiting along an axis of a single value *)

\* the offsets after the passes along the axes of more than one value, the
\* passes along the other axes left out
RemainingPasses(df, a) ==
    LET wds == SortedSeq(WdSet(df))
        wss == SortedSeq(WsSet(df))
        tis == SortedSeq(TiSet(df))
        n1 == Len(wds)
        n2 == Len(wss)
        n3 == Len(tis)
        offsets_array == reshape_4d(df, n1, n2, n3)
        after_wd == rate_limit_axis(offsets_array, 1, n1,
                                    a.wd_rate_limit * (wds[2] - wds[1]))
        after_ws == IF n2 = 1 THEN after_wd
                    ELSE rate_limit_axis(after_wd, 2, n2,
                                         a.ws_rate_limit * (wss[2] - wss[1]))
        after_ti == IF n3 = 1 THEN after_ws
                    ELSE rate_limit_axis(after_ws, 3, n3,
                                         a.ti_rate_limit * (tis[2] - tis[1]))
    IN  with_offsets(df, after_ti, n2, n3)

\* C27: handed a valid table of two or more wind directions that has a
\* single turbulence intensity, a single wind speed or both,
\* apply_static_rate_limits returns, and the table it returns has the
\* offsets of the passes along the axes of more than one value.
C27_SingleValueAxisIsNoOp ==
    (/\ pc = "done"
     /\ args.fn = "apply_static_rate_limits"
     /\ IsRowMajorProduct(df_opt)
     /\ Cardinality(WdSet(df_opt)) >= 2
     /\ Cardinality(WsSet(df_opt)) = 1 \/ Cardinality(TiSet(df_opt)) = 1) =>
        /\ ret.status = "ok"
        /\ SameOffsets(ret.table, RemainingPasses(df_opt, args))

====
